---- MODULE Spec2Model ----
(***************************************************************************)
(* Chat / feedback extraction pipeline of the dashboard back end:          *)
(*   chat_data.py         _parse_chat_messages, _create_chat_view,         *)
(*                        get_chat_data                                    *)
(*   feedback_data_v2.py  _parse_feedback_entries, get_feedback_data       *)
(*   feedback_data.py     _parse_feedback_entries, get_feedback_data       *)
(*   get_show_data.py     generate_summary_stats                           *)
(*   feedback_details_page.py  the pagination of the feedback table        *)
(*                                                                         *)
(* Encoding of Python values                                               *)
(*   None / NaN in a string column   the string Null                       *)
(*   an optional number              <<>> for None / NaT, <<n>> for n      *)
(*   a decoded JSON value            a record with a "tag" field:          *)
(*       "absent" (key not in the dict), "null", "dict", "str", "list"     *)
(*   a dict used for iteration       a sequence of [id, hist] items, in    *)
(*                                   insertion order, ids pairwise distinct*)
(*   a DataFrame                     [columns, rows]: whether it has its    *)
(*                                   columns, and the sequence of its rows  *)
(***************************************************************************)
EXTENDS Integers, Sequences, FiniteSets, TLC

VARIABLES
    chat_df,         \* rows returned by _fetch_raw_chat_data
    tie,             \* how the sort of the running build orders equal keys
    pc,              \* position inside get_chat_data
    i,               \* index of the next row of the loop of _parse_chat_messages
    chat_data,       \* the list chat_data of _parse_chat_messages / parsed_df
    chat_show_data,  \* the value get_chat_data returns
    chat_error,      \* get_chat_data logged an error (its except branch ran)
    feedback_df,     \* rows returned by _fetch_raw_feedback_data
    fpc,             \* position inside get_feedback_data
    fi,              \* index of the next row of the loop of _parse_feedback_entries
    feedback_data,   \* the list feedback_data / the value get_feedback_data returns
    feedback_error,  \* get_feedback_data logged an error (its except branch ran)
    chat_view_df,    \* the frame get_chat_data returned to __main__
    parsed_df,       \* the frame get_feedback_data returned to __main__
    main_chat_df,    \* what the object chat_df of __main__ holds now
    main_feedback_df,\* what the object feedback_df of __main__ holds now
    spc,             \* position of __main__ around generate_summary_stats
    summary,         \* the dict generate_summary_stats returned
    summary_error,   \* the exception generate_summary_stats raised
    store,           \* the database file behind db_path, as the run finds it
    page,            \* st.session_state.page of the feedback details page
    page_jumper,     \* st.session_state.page_jumper, the number input
    total_items,     \* len(filtered_df) under the filters as they are set
    items_per_page,  \* the value of the page size selectbox
    total_pages,     \* total_pages of the last run that rendered the table
    start_idx,       \* start_idx of the slice of the last run
    ppc,             \* the page waits for the user, or a script run is due
    event            \* the widget event the coming or last run answers

cvars == <<chat_df, tie, pc, i, chat_data, chat_show_data, chat_error>>
fvars == <<feedback_df, fpc, fi, feedback_data, feedback_error>>
svars == <<chat_view_df, parsed_df, main_chat_df, main_feedback_df, spc, summary,
           summary_error, store>>
pvars == <<page, page_jumper, total_items, items_per_page, total_pages, start_idx,
           ppc, event>>
vars == <<cvars, fvars, svars, pvars>>

----------------------------------------------------------------------------
(* Bounds of the model *)

\* total number of message entries in one batch of conversations
MaxRecs == 3

\* blob ids of the conversations of a batch, by row
ChatIds == <<"c1", "c2">>

\* message ids by position in a tree; AltIds is a second, disjoint namespace
MsgIds == <<"m1", "m2", "m3", "m4", "m5">>
AltIds == <<"n1", "n2", "n3", "n4", "n5">>

\* positions a parentId may point at (0: parentId is null)
ParentSlots == 0 .. 2

\* a message id that is the key of no tree
GoneId == "m0"

\* message timestamps, seconds since the epoch
Stamps == {1, 2}

\* user names of the user table
UserNames == {"alice", "dali", "cz"}

\* pd.DataFrame(): no columns, no rows
EmptyFrame == [columns |-> FALSE, rows |-> <<>>]

\* __main__ has not reached generate_summary_stats
\* the database file: usable, missing (get_db_engine raises
\* FileNotFoundError), or present with a query that fails (query_db raises)
StoreStates == {"ok", "missing", "query_fails"}

\* 'page' not in st.session_state, st.session_state.get("page_jumper") is None
NoPage == 0

\* options=[10, 20, 50, 100], index=1 of the page size selectbox
PageSizeOptions == {10, 20, 50, 100}
DefaultPageSize == 20

\* no session of the feedback details page is open
PageIdle ==
    /\ page = NoPage
    /\ page_jumper = NoPage
    /\ total_items = 0
    /\ items_per_page = DefaultPageSize
    /\ total_pages = 1
    /\ start_idx = <<>>
    /\ ppc = "off"
    /\ event = "none"

SummaryIdle ==
    /\ chat_view_df = EmptyFrame
    /\ parsed_df = EmptyFrame
    /\ main_chat_df = EmptyFrame
    /\ main_feedback_df = EmptyFrame
    /\ spc = "idle"
    /\ summary = <<>>
    /\ summary_error = "none"

Null == "<None>"
NaT == <<>>

----------------------------------------------------------------------------
(* Generic helpers *)

Range(s) == {s[k] : k \in DOMAIN s}

RECURSIVE Flatten(_)
Flatten(ss) == IF ss = <<>> THEN <<>> ELSE Head(ss) \o Flatten(Tail(ss))

SeqsUpTo(S, n) == UNION {[1 .. k -> S] : k \in 0 .. n}

----------------------------------------------------------------------------
(* timestamp_to_datetime: None stays None; a timestamp becomes the naive   *)
(* local wall-clock time.  The zone of the host is a fixed UTC offset      *)
(* (UTC+8, no daylight-saving transitions).                                *)

UtcOffset == 8 * 3600

timestamp_to_datetime(timestamp) ==
    IF timestamp = <<>> THEN NaT ELSE <<timestamp[1] + UtcOffset>>

----------------------------------------------------------------------------
(* The rows of the chat table: SELECT b.name, a.* FROM chat a LEFT JOIN    *)
(* user b.  Column chat is a JSON text; kind names what it decodes to:     *)
(*   "undecodable"   not JSON: json.loads raises JSONDecodeError           *)
(*   "sqlnull"       SQL NULL: json.loads(None) raises TypeError           *)
(*   "jsonnull"      the JSON text null: decodes to None                   *)
(*   "nohistory"     a dict without the key "history"                      *)
(*   "nullhistory"   a dict with "history": null                           *)
(*   "nomessages"    "history" is a dict without the key "messages"        *)
(*   "nullmessages"  "history" is a dict with "messages": null             *)
(*   "ok"            "history"."messages" is a dict; items holds it        *)
(* An item of the message dict is [id, hist]; hist.tag is "dict" for a     *)
(* message record and "str" for an entry that is not a mapping.            *)

BlobKinds == {"undecodable", "sqlnull", "jsonnull", "nohistory", "nullhistory",
              "nomessages", "nullmessages", "ok"}

\* texts of the messages, by row and position
Texts == << <<"t11", "t12", "t13", "t14", "t15">>,
            <<"t21", "t22", "t23", "t24", "t25">>,
            <<"t31", "t32", "t33", "t34", "t35">> >>

OptStamps == {NaT} \cup {<<t>> : t \in Stamps}

\* shapes of message entries: the role, the position the parentId points at
\* (0: null, -1: GoneId) and the timestamp
UserShape == [role |-> "user", slot |-> 0, ts |-> <<1>>]
SystemShape == [role |-> "system", slot |-> 0, ts |-> <<1>>]
NotMapShape == [role |-> "<notmap>", slot |-> 0, ts |-> NaT]
AssistantShapes == [role : {"assistant"}, slot : ParentSlots, ts : OptStamps]
RichShapes == {UserShape, SystemShape} \cup AssistantShapes
PlainShapes == {UserShape, NotMapShape, [role |-> "assistant", slot |-> -1, ts |-> <<1>>]}

HistOf(shape, ids, text) ==
    IF shape.role = "<notmap>"
    THEN [tag |-> "str", role |-> Null, parentId |-> Null, timestamp |-> NaT,
          content |-> Null]
    ELSE [tag |-> "dict", role |-> shape.role,
          parentId |-> CASE shape.slot = 0 -> Null
                         [] shape.slot = -1 -> GoneId
                         [] OTHER -> ids[shape.slot],
          timestamp |-> shape.ts, content |-> text]

ItemsOf(shapes, ids, r) ==
    [k \in 1 .. Len(shapes) |-> [id |-> ids[k], hist |-> HistOf(shapes[k], ids, Texts[r][k])]]

\* row shapes with exactly k message entries
ViewRows(k) == [name : {"alice"}, kind : {"ok"}, shapes : [1 .. k -> RichShapes]]
ParseRows(k) ==
    [name : UserNames, kind : {"ok"}, shapes : [1 .. k -> PlainShapes]]
    \cup (IF k = 0 THEN [name : UserNames, kind : BlobKinds \ {"ok"}, shapes : {<<>>}]
          ELSE {})

\* the rows of a batch: row r has blob id ChatIds[r]; with alt the rows after
\* the first take their message ids from AltIds, so that ids do not collide
Materialize(b, alt) ==
    [r \in 1 .. Len(b) |->
        [id |-> r, user_id |-> b[r].name, name |-> b[r].name,
         chat |-> [kind |-> b[r].kind, id |-> ChatIds[r],
                   items |-> ItemsOf(b[r].shapes,
                                     IF alt /\ r > 1 THEN AltIds ELSE MsgIds, r)]]]

\* the row shapes with k entries of a family of batches: "view" for the
\* trees the pairing is about, "parse" for the rows the flattening is about
BatchRows(family, k) == IF family = "view" THEN ViewRows(k) ELSE ParseRows(k)

\* df is a batch of one or two rows of the family, with at most MaxRecs
\* message entries in all
IsBatch(df, family) ==
    \E k1 \in 0 .. MaxRecs : \E r1 \in BatchRows(family, k1) :
        \/ df = Materialize(<<r1>>, FALSE)
        \/ \E k2 \in 0 .. MaxRecs - k1 : \E r2 \in BatchRows(family, k2) :
              \E alt \in BOOLEAN : df = Materialize(<<r1, r2>>, alt)

----------------------------------------------------------------------------
(* _parse_chat_messages, one row of chat_df at a time *)

ChatDenylist == {"dali", "cz", " cz"}

\* the exception classes of the except clause of the loop
ChatCaught == {"JSONDecodeError", "KeyError"}

\* the exception the body of the loop raises on row r, "none" when it runs
\* to its end or reaches the continue of the denylist
ChatRowRaises(r) ==
    CASE r.chat.kind = "undecodable" -> "JSONDecodeError"
      [] r.chat.kind = "sqlnull" -> "TypeError"
      [] r.name \in ChatDenylist -> "none"
      [] r.chat.kind \in {"jsonnull", "nullhistory", "nullmessages"} -> "AttributeError"
      [] r.chat.kind \in {"nohistory", "nomessages"} -> "none"
      [] OTHER -> IF \E k \in DOMAIN r.chat.items : r.chat.items[k].hist.tag # "dict"
                  THEN "AttributeError" ELSE "none"

\* the inner loop over the entries that have no parent or a parent in the dict
ChatMessagesLinked(r) ==
    IF r.chat.kind = "ok"
    THEN LET Linked(e) ==
                 \/ e.hist.parentId = Null
                 \/ \E k \in DOMAIN r.chat.items : r.chat.items[k].id = e.hist.parentId
         IN SelectSeq(r.chat.items, Linked)
    ELSE <<>>

\* the message dict the inner loop iterates over
ChatMessages(r) ==
    IF r.chat.kind = "ok" THEN r.chat.items ELSE <<>>

\* the records the inner loop appends for row r.  Of the fields of a record
\* the model keeps those the pairing reads or carries into its output.
ChatRowRecords(r) ==
    [k \in 1 .. Len(ChatMessages(r)) |->
        [chat_id |-> r.chat.id,
         chat_user_id |-> r.user_id,
         user_name |-> r.name,
         role |-> ChatMessages(r)[k].hist.role,
         message_id |-> ChatMessages(r)[k].id,
         parentId |-> ChatMessages(r)[k].hist.parentId,
         created_at |-> timestamp_to_datetime(ChatMessages(r)[k].hist.timestamp),
         content |-> ChatMessages(r)[k].hist.content]]

----------------------------------------------------------------------------
(* _create_chat_view *)

\* the orders in which a sort may leave rows of equal key: sort_values uses
\* an unstable sort (kind = quicksort), so the order of ties is a property
\* of the build: they keep the order of the input, or they come out in the
\* reverse of it
TieOrders == {"input", "reversed"}

\* row p comes before row q in sort_values('created_at', ascending=False):
\* NaT last, in the order of the input
Precedes(s, p, q, t) ==
    CASE s[p].created_at = NaT -> s[q].created_at = NaT /\ p < q
      [] s[q].created_at = NaT -> TRUE
      [] OTHER ->
            \/ s[p].created_at[1] > s[q].created_at[1]
            \/ /\ s[p].created_at[1] = s[q].created_at[1]
               /\ IF t = "input" THEN p < q ELSE p > q

\* sort_values without inplace=True: the frame keeps the order of the input
SortValuesDropped(s, t) == s

\* the sort with na_position='first': the rows without timestamp lead
SortValuesNaFirst(s, t) ==
    LET Before(p, q) ==
            CASE s[p].created_at = NaT -> s[q].created_at # NaT \/ p < q
              [] s[q].created_at = NaT -> FALSE
              [] OTHER -> Precedes(s, p, q, t)
    IN  [k \in 1 .. Len(s) |->
            s[CHOOSE p \in DOMAIN s :
                Cardinality({q \in DOMAIN s : q # p /\ Before(q, p)}) = k - 1]]

SortValuesDesc(s, t) ==
    [k \in 1 .. Len(s) |->
        s[CHOOSE p \in DOMAIN s :
            Cardinality({q \in DOMAIN s : Precedes(s, q, p, t)}) = k - 1]]

\* drop_duplicates without inplace=True: every candidate stays
DropDuplicatesDropped(s) == s

\* drop_duplicates(subset=['message_id'], keep='first')
RECURSIVE DropDuplicates(_)
DropDuplicates(s) ==
    IF s = <<>> THEN <<>>
    ELSE LET init == DropDuplicates(SubSeq(s, 1, Len(s) - 1))
             last == s[Len(s)]
         IN IF \E k \in 1 .. Len(s) - 1 : s[k].message_id = last.message_id
            THEN init ELSE Append(init, last)

IsUser(m) == m.role = "user"
IsAssistant(m) == m.role = "assistant"

\* responses[['parentId', 'content', 'message_id', 'created_at']] renamed
ResponsesToMerge(chat_data_pd) ==
    LET responses == SelectSeq(chat_data_pd, IsAssistant)
    IN [k \in 1 .. Len(responses) |->
           [message_id |-> responses[k].parentId,
            answer_message_id |-> responses[k].message_id,
            respond_content |-> responses[k].content,
            created_at |-> responses[k].created_at]]

\* the rows of right whose key equals the key of the left row
JoinKey(left, right) == left.message_id = right.message_id

\* the merge with how='inner': the queries without answer are dropped
MergeInner(queries, right) ==
    Flatten([k \in 1 .. Len(queries) |->
        LET q == queries[k]
            Hit(a) == q.message_id = a.message_id
            hits == SelectSeq(right, Hit)
        IN [j \in 1 .. Len(hits) |->
               [chat_id |-> q.chat_id, chat_user_id |-> q.chat_user_id,
                user_name |-> q.user_name, role |-> q.role,
                message_id |-> q.message_id, parentId |-> q.parentId,
                created_at |-> q.created_at, content |-> q.content,
                answer_message_id |-> hits[j].answer_message_id,
                respond_content |-> hits[j].respond_content]]])

\* queries.merge(right[['message_id', 'answer_message_id', 'respond_content']],
\*               on='message_id', how='left')
MergeLeft(queries, right) ==
    Flatten([k \in 1 .. Len(queries) |->
        LET q == queries[k]
            Hit(a) == JoinKey(q, a)
            hits == SelectSeq(right, Hit)
            Row(id, text) ==
                [chat_id |-> q.chat_id, chat_user_id |-> q.chat_user_id,
                 user_name |-> q.user_name, role |-> q.role,
                 message_id |-> q.message_id, parentId |-> q.parentId,
                 created_at |-> q.created_at, content |-> q.content,
                 answer_message_id |-> id, respond_content |-> text]
        IN IF hits = <<>> THEN << Row(Null, Null) >>
           ELSE [j \in 1 .. Len(hits) |->
                    Row(hits[j].answer_message_id, hits[j].respond_content)]])

\* the resolved answers: sorted newest first, one kept per join key
ResolvedAnswers(chat_data_pd, t) ==
    DropDuplicates(SortValuesDesc(ResponsesToMerge(chat_data_pd), t))

create_chat_view(chat_data_pd, t) ==
    IF chat_data_pd = <<>> THEN <<>>
    ELSE MergeLeft(SelectSeq(chat_data_pd, IsUser), ResolvedAnswers(chat_data_pd, t))

----------------------------------------------------------------------------
(* get_chat_data: fetch, parse, pair; any exception gives an empty frame *)

Init ==
    /\ store \in StoreStates
    /\ IF store = "ok"
       THEN /\ \/ IsBatch(chat_df, "view")
               \/ IsBatch(chat_df, "parse")
               \/ chat_df = <<>>
            /\ pc = "parse"
       ELSE /\ chat_df = <<>>
            /\ pc = "acquire"
    /\ tie \in TieOrders
    /\ i = 1
    /\ chat_data = <<>>
    /\ chat_show_data = <<>>
    /\ chat_error = FALSE
    /\ feedback_df = <<>>
    /\ fpc = "idle"
    /\ fi = 1
    /\ feedback_data = <<>>
    /\ feedback_error = FALSE
    /\ SummaryIdle
    /\ PageIdle

\* the body of the loop runs to its end: the records of the row are appended
ParseRow ==
    /\ pc = "parse" /\ i <= Len(chat_df)
    /\ ChatRowRaises(chat_df[i]) = "none"
    /\ chat_df[i].name \notin ChatDenylist
    /\ chat_data' = chat_data \o ChatRowRecords(chat_df[i])
    /\ i' = i + 1
    /\ UNCHANGED <<chat_df, tie, pc, chat_show_data, chat_error, fvars, svars, pvars>>

\* the continue of the denylist
ParseDenylisted ==
    /\ pc = "parse" /\ i <= Len(chat_df)
    /\ ChatRowRaises(chat_df[i]) = "none"
    /\ chat_df[i].name \in ChatDenylist
    /\ i' = i + 1
    /\ UNCHANGED <<chat_df, tie, pc, chat_data, chat_show_data, chat_error, fvars, svars, pvars>>

\* the except clause of the loop: a warning, then the next row
ParseCaught ==
    /\ pc = "parse" /\ i <= Len(chat_df)
    /\ ChatRowRaises(chat_df[i]) \in ChatCaught
    /\ i' = i + 1
    /\ UNCHANGED <<chat_df, tie, pc, chat_data, chat_show_data, chat_error, fvars, svars, pvars>>

\* an exception the loop does not catch leaves _parse_chat_messages, whose
\* list is lost, and is caught by get_chat_data, which logs it and returns an
\* empty DataFrame
ParseUncaught ==
    /\ pc = "parse" /\ i <= Len(chat_df)
    /\ ChatRowRaises(chat_df[i]) \notin ChatCaught \cup {"none"}
    /\ chat_data' = <<>>
    /\ chat_show_data' = <<>>
    /\ chat_error' = TRUE
    /\ pc' = "returned"
    /\ UNCHANGED <<chat_df, tie, i, fvars, svars, pvars>>

\* get_db_engine or _fetch_raw_chat_data raises: the except branch logs the
\* error and returns pd.DataFrame()
AcquireFails ==
    /\ pc = "acquire"
    /\ store # "ok"
    /\ chat_show_data' = <<>>
    /\ chat_error' = TRUE
    /\ pc' = "returned"
    /\ UNCHANGED <<chat_df, tie, i, chat_data, fvars, svars, pvars>>

\* the loop is over: parsed_df = pd.DataFrame(chat_data), then
\* chat_view_df = _create_chat_view(parsed_df); return chat_view_df
CreateChatView ==
    /\ pc = "parse" /\ i > Len(chat_df)
    /\ chat_show_data' = create_chat_view(chat_data, tie)
    /\ pc' = "returned"
    /\ UNCHANGED <<chat_df, tie, i, chat_data, chat_error, fvars, svars, pvars>>

Next ==
    \/ ParseRow
    \/ ParseDenylisted
    \/ ParseCaught
    \/ ParseUncaught
    \/ AcquireFails
    \/ CreateChatView

Spec == Init /\ [][Next]_vars

----------------------------------------------------------------------------
(* Properties of the pairing (_create_chat_view) *)

\* get_chat_data returned the result of _create_chat_view
Paired == pc = "returned" /\ ~chat_error

UserRecs == {k \in DOMAIN chat_data : IsUser(chat_data[k])}

\* the assistant records whose parentId is the message id mid
Candidates(mid) ==
    {k \in DOMAIN chat_data : IsAssistant(chat_data[k]) /\ chat_data[k].parentId = mid}

\* the output rows of the flattened record rec
RowsOf(rec) ==
    {j \in DOMAIN chat_show_data :
        /\ chat_show_data[j].chat_id = rec.chat_id
        /\ chat_show_data[j].message_id = rec.message_id
        /\ chat_show_data[j].content = rec.content}

\* the message entries of the batch, and the timestamp the tree gives the
\* entry whose text is text (texts are pairwise distinct)
Entries == UNION {Range(ChatMessages(chat_df[r])) : r \in DOMAIN chat_df}
StampOf(text) == (CHOOSE e \in Entries : e.hist.content = text).hist.timestamp

\* the output row carries the answer of the flattened record a
Attached(row, a) ==
    /\ row.answer_message_id = a.message_id
    /\ row.respond_content = a.content

\* C1: the output of _create_chat_view has exactly one row per user record of
\* its input: as many rows as user records, and for each user record exactly
\* one row of its conversation, message id and text
C1_OneRowPerUserRecord ==
    Paired =>
        /\ Len(chat_show_data) = Cardinality(UserRecs)
        /\ \A k \in UserRecs : Cardinality(RowsOf(chat_data[k])) = 1

\* a user record with several assistant children has been paired in a
\* dataset where one message id occurs in two conversations
C1_Witness ==
    /\ Paired
    /\ \E k \in UserRecs : Cardinality(Candidates(chat_data[k].message_id)) >= 2
    /\ \E k1, k2 \in DOMAIN chat_data :
          /\ chat_data[k1].message_id = chat_data[k2].message_id
          /\ chat_data[k1].chat_id # chat_data[k2].chat_id

\* C2: every attached answer belongs to the conversation of its query
C2_AnswerOfSameConversation ==
    Paired =>
        \A j \in DOMAIN chat_show_data :
            chat_show_data[j].answer_message_id # Null =>
                \A k \in DOMAIN chat_data :
                    (IsAssistant(chat_data[k]) /\ Attached(chat_show_data[j], chat_data[k]))
                        => chat_data[k].chat_id = chat_show_data[j].chat_id

\* the candidates of mid carry pairwise distinct, non-null timestamps
DistinctStamps(mid) ==
    /\ \A k \in Candidates(mid) : StampOf(chat_data[k].content) # <<>>
    /\ \A k1, k2 \in Candidates(mid) :
          k1 # k2 => StampOf(chat_data[k1].content) # StampOf(chat_data[k2].content)

\* the candidate of mid with the greatest timestamp
Latest(mid) ==
    CHOOSE k \in Candidates(mid) :
        \A k2 \in Candidates(mid) :
            StampOf(chat_data[k2].content)[1] <= StampOf(chat_data[k].content)[1]

\* C3: when the assistant records that share a parent-id have pairwise
\* distinct non-null timestamps, the answer attached to the query of that id
\* is the one with the greatest timestamp, wherever it stands in the input
C3_LatestAnswerWins ==
    Paired =>
        \A j \in DOMAIN chat_show_data :
            LET mid == chat_show_data[j].message_id
            IN (Cardinality(Candidates(mid)) >= 2 /\ DistinctStamps(mid))
                => Attached(chat_show_data[j], chat_data[Latest(mid)])

\* a query has been paired whose latest answer is not its first in the input
C3_Witness ==
    /\ Paired
    /\ \E j \in DOMAIN chat_show_data :
          LET mid == chat_show_data[j].message_id
          IN /\ Cardinality(Candidates(mid)) >= 2 /\ DistinctStamps(mid)
             /\ \E k \in Candidates(mid) : k < Latest(mid)
             /\ Attached(chat_show_data[j], chat_data[Latest(mid)])

\* C4: a user record that no assistant record names as its parent is in the
\* output, with answer_message_id and respond_content null
C4_UnansweredQueryKept ==
    Paired =>
        \A k \in UserRecs :
            Candidates(chat_data[k].message_id) = {} =>
                /\ RowsOf(chat_data[k]) # {}
                /\ \A j \in RowsOf(chat_data[k]) :
                      /\ chat_show_data[j].answer_message_id = Null
                      /\ chat_show_data[j].respond_content = Null

\* an unanswered query has been paired in a dataset that also holds an
\* answered one
C4_Witness ==
    /\ Paired
    /\ \E k \in UserRecs : Candidates(chat_data[k].message_id) = {}
    /\ \E j \in DOMAIN chat_show_data : chat_show_data[j].answer_message_id # Null

\* the datasets that hold the rows of chat_data in another order inside each
\* conversation (the message dict of a conversation listed in another order)
Reorderings ==
    {[k \in DOMAIN chat_data |-> chat_data[p[k]]] :
        p \in {f \in [DOMAIN chat_data -> DOMAIN chat_data] :
                  /\ \A k1, k2 \in DOMAIN chat_data : k1 # k2 => f[k1] # f[k2]
                  /\ \A k \in DOMAIN chat_data : chat_data[f[k]].chat_id = chat_data[k].chat_id}}

\* the candidates of mid all carry one and the same non-null timestamp
EqualStamps(mid) ==
    /\ \A k \in Candidates(mid) : StampOf(chat_data[k].content) # <<>>
    /\ \A k1, k2 \in Candidates(mid) :
          StampOf(chat_data[k1].content) = StampOf(chat_data[k2].content)

\* C5: among candidate answers of equal timestamp the selected answer does
\* not depend on the order of the input records
C5_TieBreakOrderIndependent ==
    Paired =>
        \A j \in DOMAIN chat_show_data :
            LET row == chat_show_data[j]
            IN (Cardinality(Candidates(row.message_id)) >= 2 /\ EqualStamps(row.message_id))
                => \A d \in Reorderings :
                      \A j2 \in DOMAIN create_chat_view(d, tie) :
                          LET row2 == create_chat_view(d, tie)[j2]
                          IN (/\ row2.chat_id = row.chat_id
                              /\ row2.message_id = row.message_id
                              /\ row2.content = row.content)
                             => /\ row2.answer_message_id = row.answer_message_id
                                /\ row2.respond_content = row.respond_content

\* the records of the conversation of rec
SameChat(rec) == {k \in DOMAIN chat_data : chat_data[k].chat_id = rec.chat_id}

\* the parentId of rec is null, no id of the tree of rec, or the id of a
\* message of that tree that is no user message
NoQueryParent(rec) ==
    \/ rec.parentId = Null
    \/ \A k \in SameChat(rec) : chat_data[k].message_id # rec.parentId
    \/ \E k \in SameChat(rec) :
          chat_data[k].message_id = rec.parentId /\ ~IsUser(chat_data[k])

\* C6: an attached answer is an assistant record whose parent-id is the id
\* of the query; an assistant record whose parent-id is null, absent from the
\* tree or the id of a non-user message is attached to no query and has no
\* output row of its own
C6_OnlyChildrenAttached ==
    Paired =>
        /\ \A j \in DOMAIN chat_show_data :
              chat_show_data[j].answer_message_id # Null =>
                  \E k \in Candidates(chat_show_data[j].message_id) :
                      Attached(chat_show_data[j], chat_data[k])
        /\ \A k \in DOMAIN chat_data :
              (IsAssistant(chat_data[k]) /\ NoQueryParent(chat_data[k])) =>
                  /\ \A j \in DOMAIN chat_show_data :
                        ~Attached(chat_show_data[j], chat_data[k])
                  /\ RowsOf(chat_data[k]) = {}

----------------------------------------------------------------------------
(* Properties of the flattening (_parse_chat_messages) *)

\* the row decodes to a conversation whose message dict holds only mappings
WellFormed(r) ==
    /\ r.chat.kind = "ok"
    /\ \A k \in DOMAIN r.chat.items : r.chat.items[k].hist.tag = "dict"

\* the loop of _parse_chat_messages has run over every row
Flattened == i > Len(chat_df)

\* the flattened records of the conversation of row r
RecordsOf(r) == {k \in DOMAIN chat_data : chat_data[k].chat_id = r.chat.id}

\* the flattened record k is the record of the entry e
RecordOfEntry(k, e) ==
    /\ chat_data[k].message_id = e.id
    /\ chat_data[k].role = e.hist.role
    /\ chat_data[k].parentId = e.hist.parentId
    /\ chat_data[k].content = e.hist.content

\* the entry e of row r is an orphan: its parentId is no key of the dict
Orphan(r, e) ==
    /\ e.hist.parentId # Null
    /\ \A k \in DOMAIN r.chat.items : r.chat.items[k].id # e.hist.parentId

\* C7: a well-formed conversation of a user who is not on the denylist gives
\* exactly one flattened record per entry of its message dict, orphans and
\* entries without a parent included
C7_OneRecordPerEntry ==
    Flattened =>
        \A r \in DOMAIN chat_df :
            (WellFormed(chat_df[r]) /\ chat_df[r].name \notin ChatDenylist) =>
                /\ Cardinality(RecordsOf(chat_df[r])) = Len(chat_df[r].chat.items)
                /\ \A n \in DOMAIN chat_df[r].chat.items :
                      Cardinality({k \in RecordsOf(chat_df[r]) :
                          RecordOfEntry(k, chat_df[r].chat.items[n])}) = 1

\* a conversation with an orphan entry and an entry without a parent has
\* been flattened
C7_Witness ==
    /\ Flattened
    /\ \E r \in DOMAIN chat_df :
          /\ WellFormed(chat_df[r]) /\ chat_df[r].name \notin ChatDenylist
          /\ \E n \in DOMAIN chat_df[r].chat.items : Orphan(chat_df[r], chat_df[r].chat.items[n])
          /\ \E n \in DOMAIN chat_df[r].chat.items : chat_df[r].chat.items[n].hist.parentId = Null
          /\ Cardinality(RecordsOf(chat_df[r])) = Len(chat_df[r].chat.items)

\* C8: a malformed conversation never aborts the flattening: when
\* get_chat_data has returned, the records of every well-formed conversation
\* of the batch have been flattened, wherever the malformed one stands
C8_MalformedNeverAborts ==
    pc = "returned" =>
        \A r \in DOMAIN chat_df :
            (WellFormed(chat_df[r]) /\ chat_df[r].name \notin ChatDenylist) =>
                \A n \in DOMAIN chat_df[r].chat.items :
                    \E k \in RecordsOf(chat_df[r]) :
                        RecordOfEntry(k, chat_df[r].chat.items[n])

----------------------------------------------------------------------------
(* The rows of the feedback table (feedback_data_v2.py): SELECT a.*, b.name *)
(* FROM feedback a LEFT JOIN user b.  The columns snapshot, data and meta   *)
(* are JSON texts.  kind names what a column decodes to:                    *)
(*   "undecodable", "sqlnull", "jsonnull"   as for the chat column          *)
(*   "ok"                                   a dict                          *)
(* and for snapshot, along the path chat.chat.history.messages:             *)
(*   "nokey"         a key of the path is missing: the messages are {}      *)
(*   "nullpath"      chat, chat.chat or history is null                     *)
(*   "nullmessages"  "messages": null                                       *)
(* A key that a dict does not hold has the value Absent.                    *)

\* number of feedback events of a batch
MaxEvents == 2

Absent == "<absent>"

FeedbackIds == <<"f1", "f2", "f3", "f4">>

StatusLabels == {"stepOn", "like", "improve", "other"}

Ratings == {<<>>, <<-1>>, <<0>>, <<1>>}

\* a node of the message tree of a snapshot
Node(role, parentId, text) ==
    [tag |-> "dict", role |-> role, parentId |-> parentId, timestamp |-> <<2>>,
     content |-> text, model |-> IF role = "assistant" THEN "model-a" ELSE Null]
StrNode ==
    [tag |-> "str", role |-> Null, parentId |-> Null, timestamp |-> NaT,
     content |-> Null, model |-> Null]

\* message trees: a query with its answer m2, an answer without parent, an
\* answer whose parent is no key, an empty tree, entries that are no mapping
Trees ==
    { << [id |-> "m1", hist |-> Node("user", Null, "q1")],
         [id |-> "m2", hist |-> Node("assistant", "m1", "a2")] >>,
      << [id |-> "m2", hist |-> Node("assistant", Null, "a2")] >>,
      << [id |-> "m2", hist |-> Node("assistant", GoneId, "a2")] >>,
      << >>,
      << [id |-> "m1", hist |-> Node("user", Null, "q1")],
         [id |-> "m2", hist |-> StrNode] >>,
      << [id |-> "m1", hist |-> StrNode],
         [id |-> "m2", hist |-> Node("assistant", "m1", "a2")] >> }

GoodTree ==
    << [id |-> "m1", hist |-> Node("user", Null, "q1")],
       [id |-> "m2", hist |-> Node("assistant", "m1", "a2")] >>

Snapshot(kind, items) == [kind |-> kind, items |-> items]
Meta(kind, message_id) == [kind |-> kind, message_id |-> message_id]
Data(kind, rating, status, ratingText, improveText, comment, details) ==
    [kind |-> kind, rating |-> rating, feedbackStatus |-> status,
     ratingText |-> ratingText, improveText |-> improveText, comment |-> comment,
     details |-> details]

\* values of "feedbackStatus" and of "details"
StatusList(labels) == [tag |-> "list", labels |-> labels]
NoStatus == [tag |-> "absent", labels |-> <<>>]
NullStatus == [tag |-> "null", labels |-> <<>>]
NoDetails == [tag |-> "absent", rating |-> <<>>]
NullDetails == [tag |-> "null", rating |-> <<>>]
DetailsDicts == [tag : {"dict"}, rating : {<<>>, <<5>>}]

GoodSnapshot == Snapshot("ok", GoodTree)
GoodMeta == Meta("ok", "m2")
RatedData(rating) == Data("ok", rating, NoStatus, "rt", "it", Absent, NoDetails)

Event(name, snapshot, data, meta) ==
    [name |-> name, snapshot |-> snapshot, data |-> data, meta |-> meta]

\* events that differ in what the classification reads
ClassifyEvents ==
    {Event("alice", GoodSnapshot,
           Data("ok", rating, status, ratingText, improveText, comment, NoDetails),
           GoodMeta) :
        rating \in Ratings,
        status \in {NoStatus} \cup {StatusList(l) : l \in SeqsUpTo(StatusLabels, 2)},
        ratingText \in {Absent, "rt"},
        improveText \in {Absent, "it"},
        comment \in {Absent, "cm"}}

\* events that differ in what the resolution of the target reads
ResolveEvents ==
    {Event("alice", snapshot, Data("ok", <<1>>, NoStatus, "rt", "it", Absent, details),
           Meta("ok", target)) :
        snapshot \in {Snapshot("nokey", <<>>), Snapshot("nullmessages", <<>>)}
                       \cup {Snapshot("ok", t) : t \in Trees},
        details \in {NoDetails, NullDetails} \cup DetailsDicts,
        target \in {Absent, "m1", "m2", GoneId}}

\* events of every user with one malformed payload, classifiable or not
MalformedEvents ==
    {Event(name, Snapshot(sk, IF sk = "ok" THEN GoodTree ELSE <<>>),
           Data(dk, rating, status, "rt", "it", Absent, NoDetails), Meta(mk, "m2")) :
        name \in UserNames,
        rating \in {<<0>>, <<1>>},
        status \in {NoStatus, NullStatus},
        sk \in {"ok", "undecodable", "sqlnull", "jsonnull", "nullpath"},
        dk \in {"ok", "undecodable", "sqlnull", "jsonnull"},
        mk \in {"ok", "undecodable", "sqlnull", "jsonnull"}}

\* the other events of a batch
Companions ==
    {Event(name, GoodSnapshot, RatedData(rating), GoodMeta) :
        name \in UserNames, rating \in {<<0>>, <<1>>}}
    \cup {Event("alice", GoodSnapshot, RatedData(<<1>>), Meta("sqlnull", Absent)),
          Event("alice", Snapshot("undecodable", <<>>), RatedData(<<1>>), GoodMeta)}

\* the rows of a batch: the n-th row has feedback id FeedbackIds[n]
FeedbackRows(events) ==
    [n \in 1 .. Len(events) |->
        [id |-> FeedbackIds[n], user_id |-> events[n].name, name |-> events[n].name,
         snapshot |-> events[n].snapshot, data |-> events[n].data,
         meta |-> events[n].meta]]

\* df is a batch of at most MaxEvents rows: one event of ClassifyEvents,
\* ResolveEvents or MalformedEvents at any position among Companions
IsFeedbackBatch(df) ==
    \E n \in 1 .. MaxEvents : \E pos \in 1 .. n :
        \E focus \in ClassifyEvents \cup ResolveEvents \cup MalformedEvents :
            \E others \in [1 .. n -> Companions] :
                df = FeedbackRows([others EXCEPT ![pos] = focus])

----------------------------------------------------------------------------
(* _parse_feedback_entries (feedback_data_v2.py), one row at a time *)

FeedbackDenylist == {"cz", " cz"}

\* the exception classes of the except clause of the loop
FeedbackCaught == {"JSONDecodeError", "KeyError"}

\* the exception json.loads raises on a column, "none" when it decodes
LoadsRaises(col) ==
    CASE col.kind = "undecodable" -> "JSONDecodeError"
      [] col.kind = "sqlnull" -> "TypeError"
      [] OTHER -> "none"

\* feedbackStatus = data.get("feedbackStatus", []), then its last entry when
\* the list is not empty; EmptyList is the list [] itself
EmptyList == "[]"
\* feedbackStatus[0] in the place of feedbackStatus[-1]
FirstStatus(data) ==
    IF data.feedbackStatus.labels = <<>> THEN EmptyList
    ELSE data.feedbackStatus.labels[1]

LatestStatus(data) ==
    IF data.feedbackStatus.labels = <<>> THEN EmptyList
    ELSE data.feedbackStatus.labels[Len(data.feedbackStatus.labels)]

\* the chain with an else branch that sets a category and goes on
ClassifyKeepingUnknown(data) ==
    CASE data.rating = <<-1>> \/ LatestStatus(data) = "stepOn" -> "bad"
      [] data.rating = <<1>> \/ LatestStatus(data) = "like" -> "good"
      [] LatestStatus(data) = "improve" -> "improve"
      [] OTHER -> "unknown"

\* the chain with the good branch tried before the bad one
ClassifyGoodFirst(data) ==
    CASE data.rating = <<1>> \/ LatestStatus(data) = "like" -> "good"
      [] data.rating = <<-1>> \/ LatestStatus(data) = "stepOn" -> "bad"
      [] LatestStatus(data) = "improve" -> "improve"
      [] OTHER -> "drop"

\* the if / elif chain over rating and feedbackStatus; "drop" is its else
\* branch, the continue
Classify(data) ==
    CASE data.rating = <<-1>> \/ LatestStatus(data) = "stepOn" -> "bad"
      [] data.rating = <<1>> \/ LatestStatus(data) = "like" -> "good"
      [] LatestStatus(data) = "improve" -> "improve"
      [] OTHER -> "drop"

\* data.get(key, ""): the text of the key, "" when the dict has no such key
TextOr(value, default) == IF value = Absent THEN default ELSE value

\* the variable comment after the chain
CommentOf(data) ==
    CASE Classify(data) \in {"bad", "good"} -> TextOr(data.ratingText, "")
      [] Classify(data) = "improve" -> TextOr(data.improveText, "")
      [] OTHER -> ""

\* snapshot.get('chat', {}).get('chat', {}).get('history', {}).get('messages', {})
\* and whether it is truthy
HistoryMessages(snapshot) == IF snapshot.kind = "ok" THEN snapshot.items ELSE <<>>

\* history_messages.get(key): the node of the key, tag "none" when the dict
\* does not hold it
NoNode ==
    [tag |-> "none", role |-> Null, parentId |-> Null, timestamp |-> NaT,
     content |-> Null, model |-> Null]
GetNode(items, key) ==
    IF \E k \in DOMAIN items : items[k].id = key
    THEN items[CHOOSE k \in DOMAIN items : items[k].id = key].hist
    ELSE NoNode

\* meta.get("message_id")
TargetId(r) == IF r.meta.message_id = Absent THEN Null ELSE r.meta.message_id

AnswerInfo(r) == GetNode(HistoryMessages(r.snapshot), TargetId(r))

\* the target itself in the place of its parent
QueryInfoOfTarget(r) == AnswerInfo(r)

\* query_info = history_messages.get(parentId) if parentId else None
QueryInfo(r) ==
    IF AnswerInfo(r).parentId = Null THEN NoNode
    ELSE GetNode(HistoryMessages(r.snapshot), AnswerInfo(r).parentId)

\* what the body of the loop does with row r, in the order of the code: the
\* exception it raises, the continue it takes ("unclassified", "denylisted",
\* "no_target", "not_found"), or "append"
FeedbackOutcome(r) ==
    CASE LoadsRaises(r.snapshot) # "none" -> LoadsRaises(r.snapshot)
      [] LoadsRaises(r.data) # "none" -> LoadsRaises(r.data)
      [] LoadsRaises(r.meta) # "none" -> LoadsRaises(r.meta)
      [] r.data.kind = "jsonnull" -> "AttributeError"
      [] r.data.feedbackStatus.tag = "null" -> "TypeError"
      [] Classify(r.data) = "drop" -> "unclassified"
      [] r.name \in FeedbackDenylist -> "denylisted"
      [] r.meta.kind = "jsonnull" -> "AttributeError"
      [] r.snapshot.kind \in {"jsonnull", "nullpath"} -> "AttributeError"
      [] TargetId(r) = Null \/ HistoryMessages(r.snapshot) = <<>> -> "no_target"
      [] AnswerInfo(r).tag = "none" -> "not_found"
      [] AnswerInfo(r).tag # "dict" -> "AttributeError"
      [] r.data.details.tag = "null" -> "AttributeError"
      [] QueryInfo(r).tag = "str" -> "AttributeError"
      [] OTHER -> "append"

\* the continue statements of the classification and of the denylist only
FeedbackContinuesEarly == {"unclassified", "denylisted"}

FeedbackContinues == {"unclassified", "denylisted", "no_target", "not_found"}

\* the dict appended for row r
FeedbackRecord(r) ==
    [feedback_id |-> r.id,
     user_id |-> r.user_id,
     user_name |-> r.name,
     good_or_bad |-> Classify(r.data),
     rating_score |-> IF r.data.details.rating = <<>> THEN <<-99>>
                      ELSE r.data.details.rating,
     rating_comment |-> TextOr(r.data.comment, CommentOf(r.data)),
     query |-> QueryInfo(r).content,
     answer |-> AnswerInfo(r).content,
     model |-> AnswerInfo(r).model,
     message_id |-> TargetId(r),
     parentId |-> AnswerInfo(r).parentId,
     created_at |-> timestamp_to_datetime(AnswerInfo(r).timestamp)]

----------------------------------------------------------------------------
(* get_feedback_data: fetch, parse; any exception gives an empty frame *)

FeedbackInit ==
    /\ chat_df = <<>>
    /\ tie = "input"
    /\ pc = "idle"
    /\ i = 1
    /\ chat_data = <<>>
    /\ chat_show_data = <<>>
    /\ chat_error = FALSE
    /\ store \in StoreStates
    /\ IF store = "ok"
       THEN /\ IsFeedbackBatch(feedback_df) \/ feedback_df = <<>>
            /\ fpc = "parse"
       ELSE /\ feedback_df = <<>>
            /\ fpc = "acquire"
    /\ fi = 1
    /\ feedback_data = <<>>
    /\ feedback_error = FALSE
    /\ SummaryIdle
    /\ PageIdle

\* the body of the loop reaches feedback_data.append
FeedbackAppend ==
    /\ fpc = "parse" /\ fi <= Len(feedback_df)
    /\ FeedbackOutcome(feedback_df[fi]) = "append"
    /\ feedback_data' = Append(feedback_data, FeedbackRecord(feedback_df[fi]))
    /\ fi' = fi + 1
    /\ UNCHANGED <<feedback_df, fpc, feedback_error, cvars, svars, pvars>>

\* one of the continue statements of the body
FeedbackContinue ==
    /\ fpc = "parse" /\ fi <= Len(feedback_df)
    /\ FeedbackOutcome(feedback_df[fi]) \in FeedbackContinues
    /\ fi' = fi + 1
    /\ UNCHANGED <<feedback_df, fpc, feedback_data, feedback_error, cvars, svars, pvars>>

\* the except clause of the loop: an error is logged, then the next row
FeedbackSkipCaught ==
    /\ fpc = "parse" /\ fi <= Len(feedback_df)
    /\ FeedbackOutcome(feedback_df[fi]) \in FeedbackCaught
    /\ fi' = fi + 1
    /\ UNCHANGED <<feedback_df, fpc, feedback_data, feedback_error, cvars, svars, pvars>>

\* an exception the loop does not catch leaves _parse_feedback_entries, whose
\* list is lost, and is caught by get_feedback_data, which logs it and
\* returns an empty DataFrame
FeedbackUncaught ==
    /\ fpc = "parse" /\ fi <= Len(feedback_df)
    /\ FeedbackOutcome(feedback_df[fi])
          \notin FeedbackCaught \cup FeedbackContinues \cup {"append"}
    /\ feedback_data' = <<>>
    /\ feedback_error' = TRUE
    /\ fpc' = "returned"
    /\ UNCHANGED <<feedback_df, fi, cvars, svars, pvars>>

\* get_db_engine or _fetch_raw_feedback_data raises: the except branch logs
\* the error and returns pd.DataFrame()
FeedbackAcquireFails ==
    /\ fpc = "acquire"
    /\ store # "ok"
    /\ feedback_data' = <<>>
    /\ feedback_error' = TRUE
    /\ fpc' = "returned"
    /\ UNCHANGED <<feedback_df, fi, cvars, svars, pvars>>

\* the loop is over: return pd.DataFrame(feedback_data)
FeedbackReturn ==
    /\ fpc = "parse" /\ fi > Len(feedback_df)
    /\ fpc' = "returned"
    /\ UNCHANGED <<feedback_df, fi, feedback_data, feedback_error, cvars, svars, pvars>>

FeedbackNext ==
    \/ FeedbackAppend
    \/ FeedbackContinue
    \/ FeedbackSkipCaught
    \/ FeedbackUncaught
    \/ FeedbackAcquireFails
    \/ FeedbackReturn

SpecFeedback == FeedbackInit /\ [][FeedbackNext]_vars

----------------------------------------------------------------------------
(* Properties of the feedback resolution *)

\* C9: a malformed feedback event never aborts the resolution: when
\* get_feedback_data has returned, every event of the batch that resolves
\* has its row in the output
C9_MalformedEventNeverAborts ==
    fpc = "returned" =>
        \A n \in DOMAIN feedback_df :
            FeedbackOutcome(feedback_df[n]) = "append" =>
                \E k \in DOMAIN feedback_data :
                    feedback_data[k].feedback_id = feedback_df[n].id

\* C10: a user name that the flattening excludes is carried by no row of the
\* resolved feedback table
C10_OneDenylist ==
    fpc = "returned" =>
        \A k \in DOMAIN feedback_data : feedback_data[k].user_name \notin ChatDenylist

----------------------------------------------------------------------------
(* The rating-only resolver: _parse_feedback_entries and get_feedback_data   *)
(* of feedback_data.py, over the same rows of the feedback table            *)

RatingDenylist == {"dali", "cz", " cz"}

\* the chain as the status-label resolver has it: the labels are read too and
\* there is no "unknown"
RatingClassifyByStatus(data) == Classify(data)

\* the if / elif / else chain over data.get("rating")
RatingClassify(data) ==
    CASE data.rating = <<-1>> -> "bad"
      [] data.rating = <<1>> -> "good"
      [] OTHER -> "unknown"

\* what the body of the loop does with row r, in the order of the code
RatingOutcome(r) ==
    CASE LoadsRaises(r.snapshot) # "none" -> LoadsRaises(r.snapshot)
      [] LoadsRaises(r.data) # "none" -> LoadsRaises(r.data)
      [] LoadsRaises(r.meta) # "none" -> LoadsRaises(r.meta)
      [] r.data.kind = "jsonnull" -> "AttributeError"
      [] r.name \in RatingDenylist -> "denylisted"
      [] r.meta.kind = "jsonnull" -> "AttributeError"
      [] r.snapshot.kind \in {"jsonnull", "nullpath"} -> "AttributeError"
      [] TargetId(r) = Null \/ HistoryMessages(r.snapshot) = <<>> -> "no_target"
      [] AnswerInfo(r).tag = "none" -> "not_found"
      [] AnswerInfo(r).tag # "dict" -> "AttributeError"
      [] r.data.details.tag = "null" -> "AttributeError"
      [] QueryInfo(r).tag = "str" -> "AttributeError"
      [] OTHER -> "append"

RatingContinues == {"denylisted", "no_target", "not_found"}

\* the dict appended for row r
RatingRecord(r) ==
    [feedback_id |-> r.id,
     user_id |-> r.user_id,
     user_name |-> r.name,
     good_or_bad |-> RatingClassify(r.data),
     rating_score |-> IF r.data.details.rating = <<>> THEN <<-99>>
                      ELSE r.data.details.rating,
     rating_comment |-> TextOr(r.data.comment, ""),
     query |-> QueryInfo(r).content,
     answer |-> AnswerInfo(r).content,
     model |-> AnswerInfo(r).model,
     message_id |-> TargetId(r),
     parentId |-> AnswerInfo(r).parentId,
     created_at |-> timestamp_to_datetime(AnswerInfo(r).timestamp)]

RatingInit == FeedbackInit

\* the body of the loop reaches feedback_data.append
RatingAppend ==
    /\ fpc = "parse" /\ fi <= Len(feedback_df)
    /\ RatingOutcome(feedback_df[fi]) = "append"
    /\ feedback_data' = Append(feedback_data, RatingRecord(feedback_df[fi]))
    /\ fi' = fi + 1
    /\ UNCHANGED <<feedback_df, fpc, feedback_error, cvars, svars, pvars>>

\* one of the continue statements of the body
RatingContinue ==
    /\ fpc = "parse" /\ fi <= Len(feedback_df)
    /\ RatingOutcome(feedback_df[fi]) \in RatingContinues
    /\ fi' = fi + 1
    /\ UNCHANGED <<feedback_df, fpc, feedback_data, feedback_error, cvars, svars, pvars>>

\* the except clause of the loop
RatingSkipCaught ==
    /\ fpc = "parse" /\ fi <= Len(feedback_df)
    /\ RatingOutcome(feedback_df[fi]) \in FeedbackCaught
    /\ fi' = fi + 1
    /\ UNCHANGED <<feedback_df, fpc, feedback_data, feedback_error, cvars, svars, pvars>>

\* an exception the loop does not catch: get_feedback_data logs it and
\* returns an empty DataFrame
RatingUncaught ==
    /\ fpc = "parse" /\ fi <= Len(feedback_df)
    /\ RatingOutcome(feedback_df[fi])
          \notin FeedbackCaught \cup RatingContinues \cup {"append"}
    /\ feedback_data' = <<>>
    /\ feedback_error' = TRUE
    /\ fpc' = "returned"
    /\ UNCHANGED <<feedback_df, fi, cvars, svars, pvars>>

\* get_db_engine or _fetch_raw_feedback_data raises: the except branch logs
\* the error and returns pd.DataFrame()
RatingAcquireFails ==
    /\ fpc = "acquire"
    /\ store \in StoreStates \ {"ok"}
    /\ feedback_data' = <<>>
    /\ feedback_error' = TRUE
    /\ fpc' = "returned"
    /\ UNCHANGED <<feedback_df, fi, cvars, svars, pvars>>

\* the loop is over: return pd.DataFrame(feedback_data)
RatingReturn ==
    /\ fpc = "parse" /\ fi > Len(feedback_df)
    /\ fpc' = "returned"
    /\ UNCHANGED <<feedback_df, fi, feedback_data, feedback_error, cvars, svars, pvars>>

RatingNext ==
    \/ RatingAppend
    \/ RatingContinue
    \/ RatingSkipCaught
    \/ RatingUncaught
    \/ RatingAcquireFails
    \/ RatingReturn

SpecRating == RatingInit /\ [][RatingNext]_vars

----------------------------------------------------------------------------
(* Properties of the classification and of the resolution of the target *)

\* the row of the feedback table that the output row k was resolved from
SourceOf(k) ==
    feedback_df[CHOOSE n \in DOMAIN feedback_df :
                    feedback_df[n].id = feedback_data[k].feedback_id]

\* the rows of the table the loop has dealt with, none of them having
\* ended the call
Resolved ==
    IF feedback_error THEN {} ELSE {n \in DOMAIN feedback_df : n < fi}

\* the output rows of the row n of the table
OutputOf(n) ==
    {k \in DOMAIN feedback_data : feedback_data[k].feedback_id = feedback_df[n].id}

\* C11: the rating-only resolver classifies every retained event from its
\* numeric rating alone: -1 is "bad", +1 is "good", any other or missing
\* rating is "unknown", and such an event is kept in the output
C11_RatingAloneClassifies ==
    /\ \A k \in DOMAIN feedback_data :
          /\ SourceOf(k).data.rating = <<-1>> => feedback_data[k].good_or_bad = "bad"
          /\ SourceOf(k).data.rating = <<1>> => feedback_data[k].good_or_bad = "good"
          /\ SourceOf(k).data.rating \notin {<<-1>>, <<1>>} =>
                feedback_data[k].good_or_bad = "unknown"
    /\ \A n \in Resolved :
          (/\ feedback_df[n].data.kind = "ok"
           /\ feedback_df[n].name \notin RatingDenylist
           /\ feedback_df[n].snapshot = GoodSnapshot
           /\ feedback_df[n].meta = GoodMeta
           /\ feedback_df[n].data.details.tag # "null") =>
              Cardinality(OutputOf(n)) = 1

\* the output holds an "unknown" row of an event without a rating whose
\* latest status label is "like", and one of an event rated 0
C11_Witness ==
    /\ fpc = "returned"
    /\ \E k \in DOMAIN feedback_data :
          /\ SourceOf(k).data.rating = <<>>
          /\ LatestStatus(SourceOf(k).data) = "like"
          /\ feedback_data[k].good_or_bad = "unknown"
    /\ \E k \in DOMAIN feedback_data :
          /\ SourceOf(k).data.rating = <<0>>
          /\ feedback_data[k].good_or_bad = "unknown"

\* the labels the status-label resolver knows, and the category of each
Recognized == {"stepOn", "like", "improve"}
CategoryOf(label) ==
    CASE label = "stepOn" -> "bad"
      [] label = "like" -> "good"
      [] label = "improve" -> "improve"
      [] OTHER -> "none"

Unrated(data) == data.rating \notin {<<-1>>, <<1>>}
LastLabel(data) == data.feedbackStatus.labels[Len(data.feedbackStatus.labels)]

\* the payloads of row r are the ones of a complete event: an answer m2 to
\* the query m1, rated by a user the resolver keeps
Complete(r) ==
    /\ r.data.kind = "ok"
    /\ r.data.details.tag # "null"
    /\ r.name \notin FeedbackDenylist
    /\ r.snapshot = GoodSnapshot
    /\ r.meta = GoodMeta

\* C12: for an event whose rating is neither -1 nor +1 the category is the
\* one of the last entry of feedbackStatus: "stepOn" is "bad", "like" is
\* "good", "improve" is "improve", whatever the earlier entries are
C12_LatestStatusDecides ==
    /\ \A k \in DOMAIN feedback_data :
          Unrated(SourceOf(k).data) =>
              /\ SourceOf(k).data.feedbackStatus.labels # <<>>
              /\ feedback_data[k].good_or_bad = CategoryOf(LastLabel(SourceOf(k).data))
    /\ \A n \in Resolved :
          (/\ Complete(feedback_df[n])
           /\ Unrated(feedback_df[n].data)
           /\ feedback_df[n].data.feedbackStatus.labels # <<>>
           /\ LastLabel(feedback_df[n].data) \in Recognized) =>
              Cardinality(OutputOf(n)) = 1

\* the output holds the row of an unrated event whose status went from one
\* recognized label to another
C12_Witness ==
    /\ fpc = "returned"
    /\ \E k \in DOMAIN feedback_data :
          /\ Unrated(SourceOf(k).data)
          /\ Len(SourceOf(k).data.feedbackStatus.labels) = 2
          /\ SourceOf(k).data.feedbackStatus.labels[1] \in Recognized
          /\ SourceOf(k).data.feedbackStatus.labels[1] # LastLabel(SourceOf(k).data)
          /\ feedback_data[k].good_or_bad = CategoryOf(LastLabel(SourceOf(k).data))

\* the event has no recognized classification
Unclassifiable(data) ==
    /\ Unrated(data)
    /\ \/ data.feedbackStatus.tag \in {"absent", "null"}
       \/ data.feedbackStatus.labels = <<>>
       \/ LastLabel(data) \notin Recognized

\* C13: an event with no recognized classification has no row in the output
\* of the status-label resolver, under any category
C13_UnclassifiedExcluded ==
    \A n \in DOMAIN feedback_df :
        Unclassifiable(feedback_df[n].data) => OutputOf(n) = {}

\* a complete event rated 0 whose only status label is "other" was passed
\* over, and the event after it was resolved
C13_Witness ==
    /\ fpc = "returned" /\ ~feedback_error
    /\ \E n \in DOMAIN feedback_df :
          /\ Complete(feedback_df[n])
          /\ feedback_df[n].data.rating = <<0>>
          /\ feedback_df[n].data.feedbackStatus.labels = <<"other">>
          /\ OutputOf(n) = {}
          /\ n + 1 \in DOMAIN feedback_df /\ OutputOf(n + 1) # {}

\* C14: the comment of an output row is the ratingText of its event when the
\* row is "bad" or "good" and the improveText when it is "improve", for every
\* event that carries the text
C14_CommentByCategory ==
    \A k \in DOMAIN feedback_data :
        /\ (/\ feedback_data[k].good_or_bad \in {"bad", "good"}
            /\ SourceOf(k).data.ratingText # Absent) =>
              feedback_data[k].rating_comment = SourceOf(k).data.ratingText
        /\ (/\ feedback_data[k].good_or_bad = "improve"
            /\ SourceOf(k).data.improveText # Absent) =>
              feedback_data[k].rating_comment = SourceOf(k).data.improveText

\* the three payloads of row r decode to dicts, the classification passes,
\* and the target message id is missing or is no key of the message tree
TargetMissing(r) ==
    /\ r.data.kind = "ok" /\ r.meta.kind = "ok"
    /\ r.snapshot.kind \in {"ok", "nokey", "nullmessages"}
    /\ r.data.feedbackStatus.tag # "null"
    /\ \/ r.meta.message_id = Absent
       \/ \A k \in DOMAIN r.snapshot.items : r.snapshot.items[k].id # r.meta.message_id

\* C15: an event whose target message id is missing or is no key of the
\* tree has no output row, and it is never the event that ends the call
C15_MissingTargetSkipped ==
    /\ \A n \in DOMAIN feedback_df :
          TargetMissing(feedback_df[n]) => OutputOf(n) = {}
    /\ (feedback_error /\ fi \in DOMAIN feedback_df) =>
          ~TargetMissing(feedback_df[fi])

\* an event whose target is no key of a tree that holds other messages was
\* passed over, and the event after it was resolved
C15_Witness ==
    /\ fpc = "returned" /\ ~feedback_error
    /\ \E n \in DOMAIN feedback_df :
          /\ TargetMissing(feedback_df[n])
          /\ ~Unclassifiable(feedback_df[n].data)
          /\ feedback_df[n].name \notin FeedbackDenylist
          /\ feedback_df[n].meta.message_id = GoneId
          /\ feedback_df[n].snapshot.items # <<>>
          /\ OutputOf(n) = {}
          /\ n + 1 \in DOMAIN feedback_df /\ OutputOf(n + 1) # {}

\* the entries of the tree of row r that are the target of the event, the
\* target being a mapping whose parentId is null or no key of the tree
ParentlessTargets(r) ==
    {k \in DOMAIN r.snapshot.items :
        /\ r.snapshot.items[k].id = r.meta.message_id
        /\ r.snapshot.items[k].hist.tag = "dict"
        /\ \A j \in DOMAIN r.snapshot.items :
              r.snapshot.items[j].id # r.snapshot.items[k].hist.parentId}

\* row r is a classifiable event of a user the resolver keeps
Classifiable(r) ==
    /\ r.data.kind = "ok" /\ r.meta.kind = "ok" /\ r.snapshot.kind = "ok"
    /\ r.data.feedbackStatus.tag # "null"
    /\ r.data.details.tag # "null"
    /\ ~Unclassifiable(r.data)
    /\ r.name \notin FeedbackDenylist

\* C16: a classifiable event whose target exists but whose parentId is null
\* or no key of the tree is retained: its row has a null query and the
\* answer, the model and the timestamp of the target
C16_ParentlessTargetRetained ==
    \A n \in Resolved :
        (Classifiable(feedback_df[n]) /\ ParentlessTargets(feedback_df[n]) # {}) =>
            /\ Cardinality(OutputOf(n)) = 1
            /\ \A k \in OutputOf(n) : \A t \in ParentlessTargets(feedback_df[n]) :
                  /\ feedback_data[k].query = Null
                  /\ feedback_data[k].answer = feedback_df[n].snapshot.items[t].hist.content
                  /\ feedback_data[k].model = feedback_df[n].snapshot.items[t].hist.model
                  /\ feedback_data[k].created_at =
                        timestamp_to_datetime(feedback_df[n].snapshot.items[t].hist.timestamp)

\* the output holds the row of an answer whose parentId is no key of the tree
C16_Witness ==
    /\ fpc = "returned"
    /\ \E n \in DOMAIN feedback_df :
          /\ Classifiable(feedback_df[n])
          /\ \E t \in ParentlessTargets(feedback_df[n]) :
                feedback_df[n].snapshot.items[t].hist.parentId = GoneId
          /\ \E k \in OutputOf(n) :
                feedback_data[k].query = Null /\ feedback_data[k].answer = "a2"

----------------------------------------------------------------------------
(* The two frames handed to generate_summary_stats (get_show_data.py): the  *)
(* question / answer pairs that get_chat_data returns and the resolved      *)
(* feedback rows that get_feedback_data returns.  A frame made of an empty  *)
(* list of records is pd.DataFrame([]): it has no columns.  The model       *)
(* identifiers of the source are written in ASCII here:                     *)
(*   '星伴V1.1' "XingBanV1.1"   '星伴v1.2' "XingBanv1.2"                    *)
(*   '聆境 1.1' "LingJing 1.1"  '聆镜 1.1' "LingJing(mirror) 1.1"           *)

\* rows of the two frames of one call, together
MaxRows == 3

\* float('nan'), what a left merge leaves where there is no match
NaN == "<NaN>"

\* seconds of a calendar day, the bin of resample('D') and of freq='D'
DayLen == 86400

\* created_at of the rows: a time on the first, second and third day
FirstDay == <<10>>
SecondDay == <<DayLen + 10>>
ThirdDay == <<2 * DayLen + 10>>

QAPair(chat_id, user_name, model, created_at, content, respond_content) ==
    [chat_id |-> chat_id, user_name |-> user_name, last_chat_model |-> model,
     created_at |-> created_at, content |-> content,
     respond_content |-> respond_content]

Feedback(user_name, model, created_at, good_or_bad) ==
    [user_name |-> user_name, model |-> model, created_at |-> created_at,
     good_or_bad |-> good_or_bad]

ModelNames ==
    {"model-a", "XingBanV1.1", "XingBanv1.2", "LingJing 1.1",
     "LingJing(mirror) 1.1", "arena-model"}

SummaryFamilies == {"keys", "models", "nulls", "text"}

\* the rows a frame of question / answer pairs is made of, by family: rows
\* that differ in user and day, in model, in which key is null, in the texts
PairRows(family) ==
    CASE family = "keys" ->
            {QAPair("c1", u, "model-a", t, "hi", "hello") :
                u \in {"alice", "bob"}, t \in {FirstDay, ThirdDay}}
      [] family = "models" ->
            {QAPair("c1", "alice", m, FirstDay, "hi", "hello") :
                m \in ModelNames \cup {Null}}
      [] family = "nulls" ->
            {QAPair(c, u, "model-a", t, "hi", "hello") :
                c \in {"c1", "c2"}, u \in {"alice", Null},
                t \in {NaT, FirstDay, SecondDay}}
            \cup {QAPair("c1", "alice", Null, FirstDay, "hi", "hello")}
      [] OTHER ->
            {QAPair("c1", "alice", "model-a", FirstDay, q, a) :
                q \in {Null, "", "hi"}, a \in {Null, NaN, "hello"}}

\* the rows a frame of resolved feedback is made of, by family
FeedbackRowsOf(family) ==
    CASE family = "keys" ->
            {Feedback(u, "model-a", t, g) :
                u \in {"alice", "bob"}, t \in {FirstDay, ThirdDay},
                g \in {"good", "bad", "improve"}}
      [] family = "models" ->
            {Feedback("alice", m, FirstDay, "bad") : m \in ModelNames \cup {Null}}
      [] family = "nulls" ->
            {Feedback(u, "model-a", t, "good") :
                u \in {"alice", Null}, t \in {NaT, FirstDay, SecondDay}}
            \cup {Feedback("alice", Null, FirstDay, "good")}
      [] OTHER -> {Feedback("alice", "model-a", FirstDay, "good")}

\* chat and feedback are frames of one family with at most MaxRows rows
\* together; the frame of pairs without rows has its columns or not (the
\* flattening gave records but no query, or no record), the frame of
\* feedback without rows has none
IsFrames(chat, feedback, family) ==
    \E n \in 0 .. MaxRows : \E m \in 0 .. MaxRows - n :
        \E rows \in [1 .. n -> PairRows(family)] :
            \E frows \in [1 .. m -> FeedbackRowsOf(family)] :
                \E columns \in (IF n > 0 THEN {TRUE} ELSE BOOLEAN) :
                    /\ chat = [columns |-> columns, rows |-> rows]
                    /\ feedback = [columns |-> m > 0, rows |-> frows]

----------------------------------------------------------------------------
(* generate_summary_stats, statement by statement.  pd.to_datetime leaves   *)
(* the values of created_at as they are encoded here (a datetime, or NaT).  *)

RECURSIVE Sum(_)
Sum(numbers) ==
    IF numbers = <<>> THEN 0 ELSE Head(numbers) + Sum(Tail(numbers))

RECURSIVE Gcd(_, _)
Gcd(a, b) == IF b = 0 THEN a ELSE Gcd(b, a % b)

\* dropna(subset=['created_at', 'user_name', <the model column>], inplace=True)
DropNaPairs(rows) ==
    SelectSeq(rows, LAMBDA r : /\ r.created_at # NaT
                               /\ r.user_name # Null
                               /\ r.last_chat_model # Null)
DropNaFeedback(rows) ==
    SelectSeq(rows, LAMBDA r : /\ r.created_at # NaT
                               /\ r.user_name # Null
                               /\ r.model # Null)

\* a replacement that moves '聆镜 1.1' to '星伴V1.1' and '星伴V1.1' to '聆境 1.1'
ReplaceModelShifted(model) ==
    CASE model = "LingJing(mirror) 1.1" -> "XingBanV1.1"
      [] model = "XingBanV1.1" -> "LingJing 1.1"
      [] OTHER -> model

\* .replace('星伴V1.1', '聆境 1.1').replace('聆镜 1.1', '聆境 1.1')
ReplaceModel(model) ==
    IF model \in {"XingBanV1.1", "LingJing(mirror) 1.1"} THEN "LingJing 1.1"
    ELSE model

\* the rows of the caller's frames when the function is done with them: the
\* rows with a null key are dropped in place, the model column is assigned
MutatedPairs(rows) ==
    [k \in DOMAIN DropNaPairs(rows) |->
        [DropNaPairs(rows)[k] EXCEPT !.last_chat_model = ReplaceModel(@)]]
MutatedFeedback(rows) ==
    [k \in DOMAIN DropNaFeedback(rows) |->
        [DropNaFeedback(rows)[k] EXCEPT !.model = ReplaceModel(@)]]

not_use_model_list == {"XingBanV1.1", "XingBanv1.2", "arena-model"}

\* astype(str).str.len(): str(None) is 'None', str(nan) is 'nan'
StrLen(value) ==
    CASE value = Null -> Len("None")
      [] value = NaN -> Len("nan")
      [] OTHER -> Len(value)

\* the local frames chat_df and feedback_df after the isin filter, the first
\* with its two length columns
CountedPairs(rows) ==
    LET kept == SelectSeq(MutatedPairs(rows),
                          LAMBDA r : r.last_chat_model \notin not_use_model_list)
    IN  [k \in DOMAIN kept |->
            kept[k] @@ [user_text_length |-> StrLen(kept[k].content),
                        ai_text_length |-> StrLen(kept[k].respond_content)]]
CountedFeedback(rows) ==
    SelectSeq(MutatedFeedback(rows), LAMBDA r : r.model \notin not_use_model_list)

\* a quotient as a float: a reduced fraction, inf or nan
Zero == [kind |-> "num", num |-> 0, den |-> 1]
Div(a, b) ==
    CASE b = 0 /\ a = 0 -> [kind |-> "nan", num |-> 0, den |-> 1]
      [] b = 0 -> [kind |-> "inf", num |-> 0, den |-> 1]
      [] OTHER -> [kind |-> "num", num |-> a \div Gcd(a, b), den |-> b \div Gcd(a, b)]

\* a / b of two Python ints: the float, or ZeroDivisionError
TrueDiv(a, b) ==
    IF b = 0 THEN [kind |-> "ZeroDivisionError", num |-> 0, den |-> 1] ELSE Div(a, b)

\* the sums of the two length columns over the rows of a frame
UserText(rows) == Sum([k \in DOMAIN rows |-> rows[k].user_text_length])
AiText(rows) == Sum([k \in DOMAIN rows |-> rows[k].ai_text_length])

\* summary['overall_stats']
overall_stats(chat, feedback) ==
    [total_chats |-> Cardinality({chat[k].chat_id : k \in DOMAIN chat}),
     total_user_queries |-> Len(chat),
     total_feedbacks |-> Len(feedback),
     feedback_ratio |->
        IF Len(chat) > 0 THEN TrueDiv(Len(feedback), Len(chat)) ELSE Zero,
     total_user_text_length |-> UserText(chat),
     total_ai_text_length |-> AiText(chat)]

\* the keys of model_stats as a plain dict of the usage would give them
ModelKeysOfUsage(chat, feedback) ==
    {chat[k].last_chat_model : k \in DOMAIN chat}

\* set(model_usage) | set(model_feedback)
ModelKeys(chat, feedback) ==
    {chat[k].last_chat_model : k \in DOMAIN chat}
        \cup {feedback[k].model : k \in DOMAIN feedback}

\* summary['model_stats']
model_stats(chat, feedback) ==
    [model \in ModelKeys(chat, feedback) |->
        [usage_count |->
            Cardinality({k \in DOMAIN chat : chat[k].last_chat_model = model}),
         feedback_count |->
            Cardinality({k \in DOMAIN feedback : feedback[k].model = model}),
         user_text_length |->
            UserText(SelectSeq(chat, LAMBDA r : r.last_chat_model = model)),
         ai_text_length |->
            AiText(SelectSeq(chat, LAMBDA r : r.last_chat_model = model))]]

\* the keys of user_stats as a plain dict of the usage would give them
UserKeysOfUsage(chat, feedback) ==
    {chat[k].user_name : k \in DOMAIN chat}

\* set(user_usage) | set(user_feedback)
UserKeys(chat, feedback) ==
    {chat[k].user_name : k \in DOMAIN chat}
        \cup {feedback[k].user_name : k \in DOMAIN feedback}

\* summary['user_stats']
user_stats(chat, feedback) ==
    [user \in UserKeys(chat, feedback) |->
        [usage_count |->
            Cardinality({k \in DOMAIN chat : chat[k].user_name = user}),
         feedback_count |->
            Cardinality({k \in DOMAIN feedback : feedback[k].user_name = user}),
         user_text_length |->
            UserText(SelectSeq(chat, LAMBDA r : r.user_name = user)),
         ai_text_length |->
            AiText(SelectSeq(chat, LAMBDA r : r.user_name = user))]]

\* the calendar day of a datetime, counted from the day of the epoch
Day(created_at) == created_at[1] \div DayLen

\* strftime('%Y-%m-%d') of the days of the model
Strftime(day) ==
    <<"1970-01-01", "1970-01-02", "1970-01-03", "1970-01-04", "1970-01-05">>[day + 1]

\* the index of set_index('created_at').resample('D'): every day from the
\* day of the earliest row to the day of the latest one, none for no row
Resample(rows) ==
    {d \in 0 .. 4 :
        /\ \E k \in DOMAIN rows : Day(rows[k].created_at) <= d
        /\ \E k \in DOMAIN rows : Day(rows[k].created_at) >= d}

\* the index of a merge of the two daily series with how='inner'
DailyIndexInner(chat, feedback) == Resample(chat) \cap Resample(feedback)

\* the index of daily_stats: the merges and the join are how='outer'
DailyIndex(chat, feedback) == Resample(chat) \cup Resample(feedback)

\* series.where(cond, other) without its condition
WhereDropped(cond, value, other) == value

\* series.where(cond, other): the value where cond holds, else other
Where(cond, value, other) == IF cond THEN value ELSE other

\* (daily_stats[count] / daily_stats['usage_count']).where(usage_count > 0, 0)
RateOf(count, usage_count) == Where(usage_count > 0, Div(count, usage_count), Zero)

\* the column good, bad or improve of a day: the size of the group of the
\* day and the label, 0 when the frame has no such group or no row at all
RatingCount(feedback, day, label) ==
    IF feedback = <<>> THEN 0
    ELSE Cardinality({k \in DOMAIN feedback :
            Day(feedback[k].created_at) = day /\ feedback[k].good_or_bad = label})

\* the row of daily_stats of a day
DailyRow(chat, feedback, day) ==
    LET on_day == SelectSeq(chat, LAMBDA r : Day(r.created_at) = day)
        usage_count == Len(on_day)
        feedback_count ==
            Cardinality({k \in DOMAIN feedback : Day(feedback[k].created_at) = day})
    IN  [usage_count |-> usage_count,
         feedback_count |-> feedback_count,
         user_text_length |-> UserText(on_day),
         ai_text_length |-> AiText(on_day),
         good |-> RatingCount(feedback, day, "good"),
         bad |-> RatingCount(feedback, day, "bad"),
         improve |-> RatingCount(feedback, day, "improve"),
         feedback_ratio |-> RateOf(feedback_count, usage_count),
         excellent_rate |-> RateOf(RatingCount(feedback, day, "good"), usage_count),
         error_rate |-> RateOf(RatingCount(feedback, day, "bad"), usage_count),
         improve_rate |-> RateOf(RatingCount(feedback, day, "improve"), usage_count)]

\* summary['daily_stats']: daily_stats.to_dict('index') under string keys
daily_stats(chat, feedback) ==
    [key \in {Strftime(d) : d \in DailyIndex(chat, feedback)} |->
        DailyRow(chat, feedback,
                 CHOOSE d \in DailyIndex(chat, feedback) : Strftime(d) = key)]

\* the groups of groupby([pd.Grouper(key='created_at', freq='D'),
\* 'user_name']) of the two frames: the pairs of a day and a user with a row
DailyUserKeys(chat, feedback) ==
    {<<Day(chat[k].created_at), chat[k].user_name>> : k \in DOMAIN chat}
        \cup {<<Day(feedback[k].created_at), feedback[k].user_name>> :
                  k \in DOMAIN feedback}

\* the lexicographic order of the user names of the model
UserRank(user) == CHOOSE n \in 1 .. 2 : <<"alice", "bob">>[n] = user

\* the keys of an outer merge come sorted: by day, then by user
RECURSIVE SortedKeys(_)
SortedKeys(keys) ==
    IF keys = {} THEN <<>>
    ELSE LET first == CHOOSE a \in keys : \A b \in keys :
                          \/ a[1] < b[1]
                          \/ a[1] = b[1] /\ UserRank(a[2]) <= UserRank(b[2])
         IN  <<first>> \o SortedKeys(keys \ {first})

\* summary['daily_user_stats']: to_dict('records') of the merged frame
daily_user_stats(chat, feedback) ==
    LET keys == SortedKeys(DailyUserKeys(chat, feedback))
    IN  [n \in DOMAIN keys |->
            LET mine == SelectSeq(chat, LAMBDA r :
                            Day(r.created_at) = keys[n][1] /\ r.user_name = keys[n][2])
            IN  [created_at |-> Strftime(keys[n][1]),
                 user_name |-> keys[n][2],
                 usage_count |-> Len(mine),
                 feedback_count |->
                    Cardinality({k \in DOMAIN feedback :
                        /\ Day(feedback[k].created_at) = keys[n][1]
                        /\ feedback[k].user_name = keys[n][2]}),
                 user_text_length |-> UserText(mine),
                 ai_text_length |-> AiText(mine)]]

\* the dict the function returns for the rows of the two frames it is given
generate_summary_stats(chat_rows, feedback_rows) ==
    LET chat == CountedPairs(chat_rows)
        feedback == CountedFeedback(feedback_rows)
    IN  [overall_stats |-> overall_stats(chat, feedback),
         model_stats |-> model_stats(chat, feedback),
         user_stats |-> user_stats(chat, feedback),
         daily_stats |-> daily_stats(chat, feedback),
         daily_user_stats |-> daily_user_stats(chat, feedback)]

\* chat_df['created_at'] and feedback_df['created_at'] of the first two
\* statements raise KeyError on a frame without columns
SummaryRaises(chat, feedback) ==
    IF ~chat.columns \/ ~feedback.columns THEN "KeyError" ELSE "none"

----------------------------------------------------------------------------
(* __main__ of get_show_data.py around the call of generate_summary_stats *)

SummaryInit ==
    /\ chat_df = <<>>
    /\ tie = "input"
    /\ pc = "idle"
    /\ i = 1
    /\ chat_data = <<>>
    /\ chat_show_data = <<>>
    /\ chat_error = FALSE
    /\ feedback_df = <<>>
    /\ fpc = "idle"
    /\ fi = 1
    /\ feedback_data = <<>>
    /\ feedback_error = FALSE
    /\ \E family \in SummaryFamilies : IsFrames(chat_view_df, parsed_df, family)
    /\ main_chat_df = chat_view_df
    /\ main_feedback_df = parsed_df
    /\ store = "ok"
    /\ PageIdle
    /\ spc = "call"
    /\ summary = <<>>
    /\ summary_error = "none"

\* the call returns: the caller's frames have lost their rows with a null
\* key and carry the replaced model names
SummaryReturn ==
    /\ spc = "call"
    /\ SummaryRaises(main_chat_df, main_feedback_df) = "none"
    /\ summary' = generate_summary_stats(main_chat_df.rows, main_feedback_df.rows)
    /\ main_chat_df' = [main_chat_df EXCEPT !.rows = MutatedPairs(@)]
    /\ main_feedback_df' = [main_feedback_df EXCEPT !.rows = MutatedFeedback(@)]
    /\ spc' = "returned"
    /\ UNCHANGED <<chat_view_df, parsed_df, summary_error, store, cvars, fvars, pvars>>

\* the caller calls the function once more on the frames it passed before
SummaryAgain ==
    /\ spc = "returned"
    /\ SummaryRaises(main_chat_df, main_feedback_df) = "none"
    /\ summary' = generate_summary_stats(main_chat_df.rows, main_feedback_df.rows)
    /\ main_chat_df' = [main_chat_df EXCEPT !.rows = MutatedPairs(@)]
    /\ main_feedback_df' = [main_feedback_df EXCEPT !.rows = MutatedFeedback(@)]
    /\ spc' = "again"
    /\ UNCHANGED <<chat_view_df, parsed_df, summary_error, store, cvars, fvars, pvars>>

\* the call raises before it has changed a row
SummaryRaise ==
    /\ spc = "call"
    /\ SummaryRaises(main_chat_df, main_feedback_df) # "none"
    /\ summary_error' = SummaryRaises(main_chat_df, main_feedback_df)
    /\ spc' = "raised"
    /\ UNCHANGED <<chat_view_df, parsed_df, main_chat_df, main_feedback_df, summary,
                   store, cvars, fvars, pvars>>

SummaryNext ==
    \/ SummaryReturn
    \/ SummaryAgain
    \/ SummaryRaise

SpecSummary == SummaryInit /\ [][SummaryNext]_vars

----------------------------------------------------------------------------
(* Properties of generate_summary_stats *)

SummaryKeys ==
    {"overall_stats", "model_stats", "user_stats", "daily_stats", "daily_user_stats"}

\* the call is over, by a return or by an exception
SummaryOver == spc \in {"returned", "raised"}

\* C17: when the frame of pairs, the frame of feedback or both are empty,
\* generate_summary_stats returns a dict with the five aggregate keys whose
\* counts for the empty frame are 0; it does not raise
C17_EmptyInputsTolerated ==
    (SummaryOver /\ (chat_view_df.rows = <<>> \/ parsed_df.rows = <<>>)) =>
        /\ spc = "returned"
        /\ DOMAIN summary = SummaryKeys
        /\ chat_view_df.rows = <<>> => summary.overall_stats.total_user_queries = 0
        /\ parsed_df.rows = <<>> => summary.overall_stats.total_feedbacks = 0

\* the rows the aggregates count: the rows of the frames as passed that
\* outlive dropna and the filter of the model names
QueriesCounted == CountedPairs(chat_view_df.rows)
FeedbackCounted == CountedFeedback(parsed_df.rows)

DailyRates == {"feedback_ratio", "excellent_rate", "error_rate", "improve_rate"}

\* C18: every ratio of the output is a number, the overall feedback_ratio is
\* 0 when there is no query, and the four rates of a day without usage are 0,
\* also when the day has feedback
C18_ZeroDenominatorGivesZero ==
    spc = "returned" =>
        /\ summary.overall_stats.feedback_ratio.kind = "num"
        /\ summary.overall_stats.total_user_queries = 0 =>
              summary.overall_stats.feedback_ratio = Zero
        /\ \A key \in DOMAIN summary.daily_stats : \A rate \in DailyRates :
              /\ summary.daily_stats[key][rate].kind = "num"
              /\ summary.daily_stats[key].usage_count = 0 =>
                    summary.daily_stats[key][rate] = Zero

\* the call returned for no query and some feedback: the day of the
\* feedback has no usage
C18_Witness ==
    /\ spc = "returned"
    /\ summary.overall_stats.total_user_queries = 0
    /\ summary.overall_stats.total_feedbacks > 0
    /\ summary.overall_stats.feedback_ratio = Zero
    /\ \E key \in DOMAIN summary.daily_stats :
          /\ summary.daily_stats[key].usage_count = 0
          /\ summary.daily_stats[key].good > 0
          /\ summary.daily_stats[key].excellent_rate = Zero

\* the number of rows of a sequence whose column has the value
CountOf(rows, column, value) ==
    Cardinality({k \in DOMAIN rows : rows[k][column] = value})

\* C19: model_stats and user_stats have one entry per key of either frame:
\* the entry carries the number of queries and the number of feedback rows of
\* the key, 0 for the frame the key does not occur in
C19_UnionKeys ==
    spc = "returned" =>
        /\ DOMAIN summary.model_stats =
              {QueriesCounted[k].last_chat_model : k \in DOMAIN QueriesCounted}
                \cup {FeedbackCounted[k].model : k \in DOMAIN FeedbackCounted}
        /\ \A model \in DOMAIN summary.model_stats :
              /\ summary.model_stats[model].usage_count =
                    CountOf(QueriesCounted, "last_chat_model", model)
              /\ summary.model_stats[model].feedback_count =
                    CountOf(FeedbackCounted, "model", model)
        /\ DOMAIN summary.user_stats =
              {QueriesCounted[k].user_name : k \in DOMAIN QueriesCounted}
                \cup {FeedbackCounted[k].user_name : k \in DOMAIN FeedbackCounted}
        /\ \A user \in DOMAIN summary.user_stats :
              /\ summary.user_stats[user].usage_count =
                    CountOf(QueriesCounted, "user_name", user)
              /\ summary.user_stats[user].feedback_count =
                    CountOf(FeedbackCounted, "user_name", user)

\* a model of the feedback that no query used has its entry, with no usage,
\* next to a model that was used but has no feedback
C19_Witness ==
    /\ spc = "returned"
    /\ \E model \in DOMAIN summary.model_stats :
          /\ summary.model_stats[model].usage_count = 0
          /\ summary.model_stats[model].feedback_count > 0
    /\ \E model \in DOMAIN summary.model_stats :
          /\ summary.model_stats[model].usage_count > 0
          /\ summary.model_stats[model].feedback_count = 0

\* the days on which a counted row falls
DaysOf(rows) == {Strftime(Day(rows[k].created_at)) : k \in DOMAIN rows}

\* the number of counted rows that fall on the day
CountOn(rows, key) ==
    Cardinality({k \in DOMAIN rows : Strftime(Day(rows[k].created_at)) = key})

\* C20: every day with a counted query or a counted feedback row has its
\* entry in daily_stats, and an entry carries the numbers of the queries and
\* of the feedback rows of its day, 0 for the frame without a row on it
C20_DailyOuterJoin ==
    spc = "returned" =>
        /\ DaysOf(QueriesCounted) \cup DaysOf(FeedbackCounted)
              \subseteq DOMAIN summary.daily_stats
        /\ \A key \in DOMAIN summary.daily_stats :
              /\ summary.daily_stats[key].usage_count = CountOn(QueriesCounted, key)
              /\ summary.daily_stats[key].feedback_count = CountOn(FeedbackCounted, key)

\* a day with queries and no feedback and a day with feedback and no query
C20_Witness ==
    /\ spc = "returned"
    /\ \E key \in DaysOf(QueriesCounted) \ DaysOf(FeedbackCounted) :
          /\ summary.daily_stats[key].usage_count > 0
          /\ summary.daily_stats[key].feedback_count = 0
    /\ \E key \in DaysOf(FeedbackCounted) \ DaysOf(QueriesCounted) :
          /\ summary.daily_stats[key].usage_count = 0
          /\ summary.daily_stats[key].feedback_count > 0

----------------------------------------------------------------------------
(* The shape of daily_user_stats, the denylist of models, the frames of the *)
(* caller and the text lengths                                              *)

DailyMetrics ==
    {"usage_count", "feedback_count", "good", "bad", "improve"} \cup DailyRates

\* C21: daily_user_stats is a flat list of records, and each record has the
\* metrics of a daily_stats entry (the usage and feedback counts, the good,
\* bad and improve counts and the four rates) next to its day and its user
C21_DailyUserShape ==
    spc = "returned" =>
        /\ DOMAIN summary.daily_user_stats = 1 .. Len(summary.daily_user_stats)
        /\ \A n \in DOMAIN summary.daily_user_stats :
              DailyMetrics \cup {"created_at", "user_name"}
                  \subseteq DOMAIN summary.daily_user_stats[n]

\* the rows the caller passed that have their three keys and a model that is
\* not on the denylist as it was passed
PairsOffDenylist ==
    SelectSeq(chat_view_df.rows,
              LAMBDA r : /\ r.created_at # NaT
                         /\ r.user_name # Null
                         /\ r.last_chat_model # Null
                         /\ r.last_chat_model \notin not_use_model_list)
FeedbackOffDenylist ==
    SelectSeq(parsed_df.rows,
              LAMBDA r : /\ r.created_at # NaT
                         /\ r.user_name # Null
                         /\ r.model # Null
                         /\ r.model \notin not_use_model_list)

\* C22: a row whose model is one of the three denylisted identifiers is
\* counted nowhere: the overall counts and the counts per model, per user and
\* per day are the counts of the rows whose model is off the denylist
C22_DenylistedModelsUncounted ==
    spc = "returned" =>
        /\ summary.overall_stats.total_user_queries = Len(PairsOffDenylist)
        /\ summary.overall_stats.total_feedbacks = Len(FeedbackOffDenylist)
        /\ \A model \in DOMAIN summary.model_stats :
              /\ summary.model_stats[model].usage_count =
                    Cardinality({k \in DOMAIN PairsOffDenylist :
                        ReplaceModel(PairsOffDenylist[k].last_chat_model) = model})
              /\ summary.model_stats[model].feedback_count =
                    Cardinality({k \in DOMAIN FeedbackOffDenylist :
                        ReplaceModel(FeedbackOffDenylist[k].model) = model})
        /\ \A user \in DOMAIN summary.user_stats :
              /\ summary.user_stats[user].usage_count =
                    CountOf(PairsOffDenylist, "user_name", user)
              /\ summary.user_stats[user].feedback_count =
                    CountOf(FeedbackOffDenylist, "user_name", user)
        /\ \A key \in DOMAIN summary.daily_stats :
              /\ summary.daily_stats[key].usage_count =
                    CountOn(PairsOffDenylist, key)
              /\ summary.daily_stats[key].feedback_count =
                    CountOn(FeedbackOffDenylist, key)

\* C23: when generate_summary_stats has returned, the two frames the caller
\* passed (and saves afterwards) have the rows and the values they had before
\* the call
C23_CallerFramesUntouched ==
    spc = "returned" =>
        /\ main_chat_df = chat_view_df
        /\ main_feedback_df = parsed_df

\* the characters of a text, none for a null
Characters(value) == IF value \in {Null, NaN} THEN 0 ELSE Len(value)

\* C26: the two text totals are the sums of the character counts of the
\* query texts and of the answer texts of the counted pairs, a null text
\* counting 0 characters
C26_TextLengthSums ==
    spc = "returned" =>
        /\ summary.overall_stats.total_user_text_length =
              Sum([k \in DOMAIN QueriesCounted |->
                      Characters(QueriesCounted[k].content)])
        /\ summary.overall_stats.total_ai_text_length =
              Sum([k \in DOMAIN QueriesCounted |->
                      Characters(QueriesCounted[k].respond_content)])

----------------------------------------------------------------------------
(* The order of the branches of the classification of feedback_data_v2.py  *)

\* the status list of the event is not empty and ends with the label
EndsWith(data, label) ==
    /\ data.feedbackStatus.labels # <<>>
    /\ LastLabel(data) = label

\* C27: the branches are tried in the order bad, good, improve: an output
\* row is "bad" when the rating of its event is -1 or the latest status is
\* "stepOn", whatever the other signal says; otherwise it is "good" when the
\* rating is +1, also with the latest status "improve"; and a row is
\* "improve" only when the rating is neither -1 nor +1
C27_BranchOrder ==
    \A k \in DOMAIN feedback_data :
        LET data == SourceOf(k).data
            bad == data.rating = <<-1>> \/ EndsWith(data, "stepOn")
        IN  /\ bad => feedback_data[k].good_or_bad = "bad"
            /\ (~bad /\ data.rating = <<1>>) => feedback_data[k].good_or_bad = "good"
            /\ feedback_data[k].good_or_bad = "improve" => Unrated(data)

\* the output holds the row "bad" of an event rated +1 whose status went
\* from "like" to "stepOn"
C27_Witness ==
    /\ fpc = "returned"
    /\ \E k \in DOMAIN feedback_data :
          /\ SourceOf(k).data.rating = <<1>>
          /\ SourceOf(k).data.feedbackStatus.labels = <<"like", "stepOn">>
          /\ feedback_data[k].good_or_bad = "bad"

----------------------------------------------------------------------------
(* Answers without timestamp in the selection of _create_chat_view *)

\* C28: an answer without timestamp is attached to a query only when every
\* candidate answer of the message id of the query is without timestamp: a
\* candidate with a timestamp is preferred, wherever it stands in the input
C28_NullStampSelectedLast ==
    Paired =>
        \A j \in DOMAIN chat_show_data :
            \A k \in Candidates(chat_show_data[j].message_id) :
                (/\ Attached(chat_show_data[j], chat_data[k])
                 /\ chat_data[k].created_at = NaT) =>
                    \A q \in Candidates(chat_show_data[j].message_id) :
                        chat_data[q].created_at = NaT

\* a query has been paired with its answer that has a timestamp, while an
\* answer without timestamp stands before that one in the input
C28_Witness ==
    /\ Paired
    /\ \E j \in DOMAIN chat_show_data :
          \E k, q \in Candidates(chat_show_data[j].message_id) :
              /\ q < k
              /\ chat_data[q].created_at = NaT
              /\ chat_data[k].created_at # NaT
              /\ Attached(chat_show_data[j], chat_data[k])
              /\ ~Attached(chat_show_data[j], chat_data[q])

----------------------------------------------------------------------------
(* Conservation of the counts across the dimensions of the summary *)

\* the sum of one field over the entries of a mapping or of a list
RECURSIVE Total(_, _)
Total(stats, field) ==
    IF DOMAIN stats = {} THEN 0
    ELSE LET key == CHOOSE k \in DOMAIN stats : TRUE
         IN  stats[key][field]
                 + Total([k \in DOMAIN stats \ {key} |-> stats[k]], field)

\* the row has its timestamp, its user name and its model
HasKeys(r, column) ==
    /\ r.created_at # NaT
    /\ r.user_name # Null
    /\ r[column] # Null

\* C29: the usage counts of model_stats, of user_stats, of daily_stats and
\* of daily_user_stats each sum to total_user_queries and the feedback counts
\* each sum to total_feedbacks; a row without timestamp, user name or model
\* is in none of them: the totals count rows that have their three keys only
C29_CountsConserved ==
    spc = "returned" =>
        /\ \A stats \in {summary.model_stats, summary.user_stats,
                         summary.daily_stats} :
              /\ Total(stats, "usage_count") =
                    summary.overall_stats.total_user_queries
              /\ Total(stats, "feedback_count") =
                    summary.overall_stats.total_feedbacks
        /\ Total(summary.daily_user_stats, "usage_count") =
              summary.overall_stats.total_user_queries
        /\ Total(summary.daily_user_stats, "feedback_count") =
              summary.overall_stats.total_feedbacks
        /\ summary.overall_stats.total_user_queries <=
              Cardinality({k \in DOMAIN chat_view_df.rows :
                              HasKeys(chat_view_df.rows[k], "last_chat_model")})
        /\ summary.overall_stats.total_feedbacks <=
              Cardinality({k \in DOMAIN parsed_df.rows :
                              HasKeys(parsed_df.rows[k], "model")})

\* a summary has been returned for a pair without user name next to a
\* counted pair and a counted feedback row
C29_Witness ==
    /\ spc = "returned"
    /\ \E k \in DOMAIN chat_view_df.rows : chat_view_df.rows[k].user_name = Null
    /\ summary.overall_stats.total_user_queries = 1
    /\ summary.overall_stats.total_feedbacks = 1
    /\ Len(chat_view_df.rows) = 2
    /\ Total(summary.daily_stats, "usage_count") = 1
    /\ Total(summary.user_stats, "feedback_count") = 1

----------------------------------------------------------------------------
(* A second call of generate_summary_stats on the same frames *)

\* C25: a second call of generate_summary_stats on the frames of the first
\* call returns the structure the first call returned, and the frames are
\* left as the first call left them
C25_SecondCallSameSummary ==
    [][spc' = "again" => /\ summary' = summary
                         /\ main_chat_df' = main_chat_df
                         /\ main_feedback_df' = main_feedback_df]_vars

\* the second call has returned for frames in which the first call replaced
\* a model name, the rows of that name being counted
C25_Witness ==
    /\ spc = "again"
    /\ \E k \in DOMAIN chat_view_df.rows :
          /\ chat_view_df.rows[k].last_chat_model = "LingJing(mirror) 1.1"
          /\ main_chat_df.rows[k].last_chat_model = "LingJing 1.1"
    /\ summary.overall_stats.total_user_queries > 0

----------------------------------------------------------------------------
(* A record store that cannot be acquired *)

\* C24: when the database file is missing or the query fails, get_chat_data
\* does not return a frame as it does for a store without rows: the failure
\* reaches its caller
C24_StoreFailureSurfaced ==
    store # "ok" => pc # "returned"

----------------------------------------------------------------------------
(* show_feedback_details_page: the pagination of the feedback table.  A    *)
(* widget event runs its on_change callback, then the script runs from the *)
(* top; a button press is answered inside the run, which ends in st.rerun. *)

\* the largest number of rows the filters can leave
MaxItems == 45

Buttons == {"first", "previous", "next", "last"}

\* a callback that leaves the page where it is
reset_pagination_kept(p) == p

\* reset_pagination, as it changes st.session_state.page
reset_pagination(p) == IF p # NoPage THEN 1 ELSE p

\* (total_items - 1) // items_per_page + 1 if total_items > 0 else 1
TotalPages(items, size) == IF items > 0 THEN (items - 1) \div size + 1 ELSE 1

\* st.session_state.page after the initialization at the top of the script
\* and the check against total_pages
PageInRange(p, pages) ==
    LET initialized == IF p = NoPage THEN 1 ELSE p
    IN  IF initialized > pages THEN pages ELSE initialized

\* the disabled= argument of the button, as rendered for page p
Disabled(button, p, pages) ==
    IF button \in {"first", "previous"} THEN p <= 1 ELSE p >= pages

\* the assignment of the if st.button(...) block
Pressed(button, p, pages) ==
    CASE button = "first" -> 1
      [] button = "previous" -> p - 1
      [] button = "next" -> p + 1
      [] OTHER -> pages

\* the table is on the screen with its page size selectbox, its number
\* input and, for more than one page, its buttons
Rendered == ppc = "idle" /\ start_idx # <<>>

PageInit ==
    /\ chat_df = <<>>
    /\ tie = "input"
    /\ pc = "idle"
    /\ i = 1
    /\ chat_data = <<>>
    /\ chat_show_data = <<>>
    /\ chat_error = FALSE
    /\ feedback_df = <<>>
    /\ fpc = "idle"
    /\ fi = 1
    /\ feedback_data = <<>>
    /\ feedback_error = FALSE
    /\ SummaryIdle
    /\ store = "ok"
    /\ page = NoPage
    /\ page_jumper = NoPage
    /\ total_items \in 0 .. MaxItems
    /\ items_per_page = DefaultPageSize
    /\ total_pages = 1
    /\ start_idx = <<>>
    /\ ppc = "run"
    /\ event = "load"

\* a run for filters that leave no row: the script returns before the
\* pagination, and the widgets it did not render lose their state
RunEmpty ==
    /\ ppc = "run"
    /\ total_items = 0
    /\ page' = (IF page = NoPage THEN 1 ELSE page)
    /\ page_jumper' = NoPage
    /\ items_per_page' = DefaultPageSize
    /\ start_idx' = <<>>
    /\ ppc' = "idle"
    /\ UNCHANGED <<total_items, total_pages, event, cvars, fvars, svars>>

\* a run that renders the table and meets no pressed button
RunRender ==
    /\ ppc = "run"
    /\ total_items > 0
    /\ event \notin Buttons
    /\ total_pages' = TotalPages(total_items, items_per_page)
    /\ page' = PageInRange(page, total_pages')
    /\ page_jumper' = page'
    /\ start_idx' = <<(page' - 1) * items_per_page>>
    /\ ppc' = "idle"
    /\ UNCHANGED <<total_items, items_per_page, event, cvars, fvars, svars>>

\* a run that renders the table, finds its button pressed, assigns the page
\* and calls st.rerun()
RunButton ==
    /\ ppc = "run"
    /\ total_items > 0
    /\ event \in Buttons
    /\ total_pages' = TotalPages(total_items, items_per_page)
    /\ page_jumper' = PageInRange(page, total_pages')
    /\ start_idx' = <<(page_jumper' - 1) * items_per_page>>
    /\ page' = (IF total_pages' > 1
                THEN Pressed(event, page_jumper', total_pages')
                ELSE page_jumper')
    /\ event' = "rerun"
    /\ ppc' = "run"
    /\ UNCHANGED <<total_items, items_per_page, cvars, fvars, svars>>

\* the user changes a filter or the sort option: reset_pagination runs, and
\* the filters leave n rows from now on
ChangeFilter(n) ==
    /\ ppc = "idle"
    /\ total_items' = n
    /\ page' = reset_pagination(page)
    /\ event' = "filter"
    /\ ppc' = "run"
    /\ UNCHANGED <<page_jumper, items_per_page, total_pages, start_idx,
                   cvars, fvars, svars>>

\* the user picks another page size: reset_pagination runs
ChangePageSize(size) ==
    /\ Rendered
    /\ size # items_per_page
    /\ items_per_page' = size
    /\ page' = reset_pagination(page)
    /\ event' = "page_size"
    /\ ppc' = "run"
    /\ UNCHANGED <<page_jumper, total_items, total_pages, start_idx,
                   cvars, fvars, svars>>

\* the user enters another number between min_value and max_value:
\* update_page_from_jumper runs
JumpTo(number) ==
    /\ Rendered
    /\ number \in 1 .. total_pages
    /\ number # page_jumper
    /\ page_jumper' = number
    /\ page' = page_jumper'
    /\ event' = "jump"
    /\ ppc' = "run"
    /\ UNCHANGED <<total_items, items_per_page, total_pages, start_idx,
                   cvars, fvars, svars>>

\* the user presses a navigation button that is rendered and not disabled
Press(button) ==
    /\ Rendered
    /\ total_pages > 1
    /\ ~Disabled(button, page, total_pages)
    /\ event' = button
    /\ ppc' = "run"
    /\ UNCHANGED <<page, page_jumper, total_items, items_per_page, total_pages,
                   start_idx, cvars, fvars, svars>>

PageNext ==
    \/ RunEmpty
    \/ RunRender
    \/ RunButton
    \/ \E n \in 0 .. MaxItems : ChangeFilter(n)
    \/ \E size \in PageSizeOptions : ChangePageSize(size)
    \/ \E number \in 1 .. MaxItems : JumpTo(number)
    \/ \E button \in Buttons : Press(button)

SpecPage == PageInit /\ [][PageNext]_vars

----------------------------------------------------------------------------
(* Properties of the pagination *)

\* the last run sliced the table and no widget has changed since
Sliced == start_idx # <<>> /\ (ppc = "idle" \/ event = "rerun")

\* C30: whatever filters, page sizes, page numbers and buttons the user
\* went through, the page the table is sliced at lies between 1 and
\* total_pages, total_pages being the number of rows divided by the page
\* size, rounded up, and at least 1; and after a change of a filter, of the
\* sort option or of the page size the page is 1
C30_PageWithinRange ==
    /\ Sliced =>
          /\ total_pages >= 1
          /\ (total_pages - 1) * items_per_page < total_items
          /\ total_items <= total_pages * items_per_page
          /\ \E p \in 1 .. total_pages : start_idx = <<(p - 1) * items_per_page>>
    /\ event \in {"filter", "page_size"} =>
          /\ page = 1
          /\ Sliced => start_idx = <<0>>

\* the user stood on a later page and changed a filter: the callback has set
\* the page to 1 for the run that is due, whose rows fill several pages
C30_Witness ==
    /\ ppc = "run" /\ event = "filter"
    /\ page = 1 /\ page_jumper > 1
    /\ TotalPages(total_items, items_per_page) > 1

====
